---- MODULE Spec2Model ----
(***************************************************************************)
(* Report caching and section assembly of oss-tldr (backend).              *)
(*                                                                         *)
(* The database tables (repositories, user_repositories, reports), the     *)
(* wall clock and the section request being served are the state.  A       *)
(* request is a record with the handler's position (pc), its local         *)
(* variables and what it answered and did.  The prs, issues and people     *)
(* handlers are one step each; the tldr handler streams and is a step to   *)
(* open the stream, a step per chunk and a step at the end of the stream.  *)
(*                                                                         *)
(* Time is counted in minutes.  Python None / SQL NULL is the empty tuple  *)
(* and a set value x is <<x>>, so that an empty list ([] = <<<<>>>>) and   *)
(* an empty text are values distinct from None.  A text is a sequence of   *)
(* tokens; "" is <<>>.                                                     *)
(*                                                                         *)
(* SpecCache is the storage layer alone (store a section, read a section, *)
(* for every section and timeframe), SpecTldr the prs, issues and tldr     *)
(* handlers under a moving clock, SpecPeople the prs, issues and people    *)
(* handlers at one instant, Spec all handlers together.                    *)
(*                                                                         *)
(* SpecRace is two requests at the same time, each with its own database   *)
(* session (READ COMMITTED): a handler is a step per awaited statement,    *)
(* a session sees the committed rows and its own writes, and an INSERT     *)
(* on a unique key held by another session waits for that session to end.  *)
(* SpecStore is get_cached_section's writer, update_section, called with   *)
(* any report id.  SpecSummaries is generate_people_summaries applied to   *)
(* lists of summarized items.                                              *)
(*                                                                         *)
(* SpecDates is resolve_timeframe called again and again while the clock   *)
(* moves over several days, SpecReplay the tldr handler over a Report      *)
(* whose stored tldr text is longer than a chunk, SpecRank the ranking     *)
(* and summarization of fetched lists longer than the cap, and SpecWait a  *)
(* request await by await: the handler stops at each external call until   *)
(* the collaborator answers or raises, and only the handler's own steps    *)
(* are fair.                                                               *)
(*                                                                         *)
(* groups is the repository groups table with its id sequence; it starts   *)
(* with the groups init_db seeds.  SpecGroups is the group routes (create, *)
(* update, delete, read) called by two users, SpecSearch the Activity      *)
(* Fetcher's search_github_items alone, over search results with bot       *)
(* authors and any remaining rate limit.                                   *)
(*                                                                         *)
(* SpecSections is every section handler at one instant, SpecDerived the   *)
(* people and tldr handlers under a moving clock over the tables the prs   *)
(* and issues requests left, and SpecTrack the tracking routes: track and  *)
(* prs requests as in SpecRace, with the untrack request as one step.      *)
(***************************************************************************)
EXTENDS Integers, Sequences, FiniteSets, TLC

VARIABLES now, repositories, user_repositories, reports, req, sessions, groups

vars == <<now, repositories, user_repositories, reports, req, sessions, groups>>

-----------------------------------------------------------------------------
(* Bounds and program constants *)

CacheMaxAge == 60

MinutesPerDay == 1440

MAX_ITEMS_PER_SECTION == 10

TopPeople == 5

chunk_size == 50

\* the longest stream of chunks the language model sends
MaxChunks == 2

\* the instants at which the clock is read: a stamp made at 0 is 60 minutes old
\* at 60 and 121 minutes old at 121; one made at 60 is 61 minutes old at 121
ClockInstants == {0, 60, 121}

Reqs == {"r1"}

\* the database sessions of the requests that run concurrently
Sessions == {"s1", "s2"}

MainReq == "r1"

Users == {"u1"}

FullNames == {"octo/widget"}

Metas == {"m1"}

Sections == {"prs", "issues", "people", "tldr"}

Timeframe == {"last_day", "last_week", "last_month", "last_year"}

\* the timeframe the section requests ask for
Watched == {"last_week"}

-----------------------------------------------------------------------------
(* Optional values *)

None == <<>>

Some(x) == <<x>>

IsNone(o) == Len(o) = 0

\* Python truthiness of an optional list or text: None, [] and "" are falsy
Truthy(o) == Len(o) = 1 /\ Len(o[1]) > 0

\* the sequence as an explicit tuple
Strict(s) == SubSeq(s, 1, Len(s))

-----------------------------------------------------------------------------
(* Collaborators: what GitHub and the language model can answer *)

RawItem(n, title, login, c, r, assoc, pr) ==
    [number |-> n, title |-> title, login |-> login, comments |-> c, reactions |-> r,
     author_association |-> assoc, assignees |-> <<>>, is_pull_request |-> pr]

pr1 == RawItem(1, "fix login", "alice", 0, 0, "NONE", TRUE)

pr2 == RawItem(2, "add cache", "bob", 3, 2, "MEMBER", TRUE)

is3 == RawItem(3, "crash on start", "alice", 1, 0, "CONTRIBUTOR", FALSE)

\* search results the Activity Fetcher can return, per item type
SearchResults(item_type) ==
    IF item_type = "pr" THEN {<<>>, <<pr1, pr2>>} ELSE {<<>>, <<is3>>}

\* sets of item numbers whose summarization call fails
SummarizeFailures == {{}, {3}}

TopContributors == {"alice"}

\* the summary the language model writes for an item
SummaryText(item) == <<"summary of", item.title>>

\* the digest the language model writes in batch mode
Digest(text) == <<"digest">>

\* the chunks the language model streams, in order; a stream is a prefix
ChunkPool == << <<"a">>, <<"b", "c">>, <<"d">> >>

AggStreams == {SubSeq(ChunkPool, 1, k) : k \in 0..MaxChunks}

ERR_SUMMARY == <<"Error generating TL;DR summary">>

ERR_DEPENDENCY == <<"Error: PRs and Issues must be loaded before generating TL;DR">>

ERR_ROUTE == <<"Error generating TL;DR: e">>

-----------------------------------------------------------------------------
(* utils/dates.py *)

TimeframeDays(timeframe) ==
    CASE timeframe = "last_day" -> 1
      [] timeframe = "last_week" -> 7
      [] timeframe = "last_month" -> 30
      [] timeframe = "last_year" -> 365

\* a datetime is [minute, us]: minutes since the epoch plus microseconds
\* datetime.now(timezone.utc) read at the start of minute t
utcnow(t) == [minute |-> t, us |-> 0]

\* dt - timedelta(days=n)
MinusDays(dt, n) == [dt EXCEPT !.minute = @ - n * MinutesPerDay]

\* dt - timedelta(microseconds=1)
MinusMicrosecond(dt) ==
    IF dt.us > 0 THEN [dt EXCEPT !.us = @ - 1]
    ELSE [minute |-> dt.minute - 1, us |-> 59999999]

\* now.replace(hour=0, minute=0, second=0, microsecond=0)
StartOfDay(dt) == [minute |-> dt.minute - (dt.minute % MinutesPerDay), us |-> 0]

\* the tokens the if / elif chain accepts
KnownTimeframe(timeframe) ==
    \/ timeframe = "last_day"
    \/ timeframe = "last_week"
    \/ timeframe = "last_month"
    \/ timeframe = "last_year"

\* the variant whose window ends now and not at the start of the day
resolve_timeframe_rolling(timeframe, dt) ==
    IF KnownTimeframe(timeframe)
    THEN [start |-> MinusDays(dt, TimeframeDays(timeframe)),
          end   |-> MinusMicrosecond(dt)]
    ELSE [raised |-> "ValueError"]

\* the variant whose end is the start of the day itself
resolve_timeframe_end_midnight(timeframe, dt) ==
    IF KnownTimeframe(timeframe)
    THEN [start |-> MinusDays(StartOfDay(dt), TimeframeDays(timeframe)),
          end   |-> StartOfDay(dt)]
    ELSE [raised |-> "ValueError"]

\* the variant that leaves the clock's microseconds in today_start
resolve_timeframe_keeps_us(timeframe, dt) ==
    LET today_start == [StartOfDay(dt) EXCEPT !.us = dt.us]
    IN  IF KnownTimeframe(timeframe)
        THEN [start |-> MinusDays(today_start, TimeframeDays(timeframe)),
              end   |-> MinusMicrosecond(today_start)]
        ELSE [raised |-> "ValueError"]

\* the variant whose else branch answers as for last_year
resolve_timeframe_defaults(timeframe, dt) ==
    LET today_start == StartOfDay(dt)
        days == IF KnownTimeframe(timeframe) THEN TimeframeDays(timeframe) ELSE 365
    IN  [start |-> MinusDays(today_start, days),
         end   |-> MinusMicrosecond(today_start)]

\* the (start, end) pair, or the ValueError of the else branch
resolve_timeframe(timeframe, dt) ==
    LET today_start == StartOfDay(dt)
    IN  IF KnownTimeframe(timeframe)
        THEN [start |-> MinusDays(today_start, TimeframeDays(timeframe)),
              end   |-> MinusMicrosecond(today_start)]
        ELSE [raised |-> "ValueError"]

-----------------------------------------------------------------------------
(* database/models/report.py and repositories/reports.py *)

ReportColumns ==
    {"id", "repository_id", "timeframe", "timeframe_start", "timeframe_end",
     "prs", "prs_generated_at", "issues", "issues_generated_at",
     "people", "people_generated_at", "tldr_text", "tldr_generated_at",
     "created_at", "version"}

NewReport(id, repository_id, timeframe, start, end, t) ==
    [id |-> id, repository_id |-> repository_id, timeframe |-> timeframe,
     timeframe_start |-> start, timeframe_end |-> end,
     prs |-> None, prs_generated_at |-> None,
     issues |-> None, issues_generated_at |-> None,
     people |-> None, people_generated_at |-> None,
     tldr_text |-> None, tldr_generated_at |-> None,
     created_at |-> t, version |-> 2,
     written_at |-> [s \in Sections |-> None]]

\* column_name = "tldr_text" if section == "tldr" else section
ColumnName(section) == IF section = "tldr" THEN "tldr_text" ELSE section

\* f"{column_name}_generated_at"
GeneratedAtAttr(column_name) ==
    CASE column_name = "prs" -> "prs_generated_at"
      [] column_name = "issues" -> "issues_generated_at"
      [] column_name = "people" -> "people_generated_at"
      [] column_name = "tldr_text" -> "tldr_text_generated_at"

\* getattr(report, name, None) on a row loaded from the table
GetAttr(report, name) == IF name \in DOMAIN report THEN report[name] ELSE None

\* setattr(report, name, value) followed by flush: only mapped columns are stored
SetAttr(report, name, value) ==
    IF name \in ReportColumns THEN [report EXCEPT ![name] = value] ELSE report

Matching(reps, repository_id, timeframe) ==
    {i \in 1..Len(reps) : reps[i].repository_id = repository_id
                          /\ reps[i].timeframe = timeframe}

\* ORDER BY created_at DESC LIMIT 1 (rows are kept in insertion order)
MostRecent(reps, idx) ==
    CHOOSE i \in idx : \A j \in idx :
        reps[j].created_at < reps[i].created_at
        \/ (reps[j].created_at = reps[i].created_at /\ j <= i)

\* the variant that applies the expiration whatever the flag says
get_cached_section_always_expires(reps, repository_id, timeframe, section, skip_expiration_check, t) ==
    LET idx == Matching(reps, repository_id, timeframe)
    IN  IF idx = {} THEN None
        ELSE LET report == reps[MostRecent(reps, idx)]
                 column_name == ColumnName(section)
                 section_data == GetAttr(report, column_name)
                 section_timestamp == GetAttr(report, GeneratedAtAttr(column_name))
             IN  IF IsNone(section_data) THEN None
                 ELSE IF /\ ~IsNone(section_timestamp)
                         /\ t - section_timestamp[1] > CacheMaxAge
                      THEN None
                      ELSE section_data

get_cached_section(reps, repository_id, timeframe, section, skip_expiration_check, t) ==
    LET idx == Matching(reps, repository_id, timeframe)
    IN  IF idx = {} THEN None
        ELSE LET report == reps[MostRecent(reps, idx)]
                 column_name == ColumnName(section)
                 section_data == GetAttr(report, column_name)
                 section_timestamp == GetAttr(report, GeneratedAtAttr(column_name))
             IN  IF IsNone(section_data) THEN None
                 ELSE IF /\ ~skip_expiration_check
                         /\ ~IsNone(section_timestamp)
                         /\ t - section_timestamp[1] > CacheMaxAge
                      THEN None
                      ELSE section_data

\* returns the table and the id of the row found or created
get_or_create_report_record(reps, repository_id, timeframe, start, end, t) ==
    LET idx == Matching(reps, repository_id, timeframe)
    IN  IF idx # {}
        THEN [reports |-> reps, id |-> reps[MostRecent(reps, idx)].id]
        ELSE [reports |-> Append(reps, NewReport(Len(reps) + 1, repository_id,
                                                 timeframe, start, end, t)),
              id |-> Len(reps) + 1]

\* the variant that takes every id for the id of a row
ReportExistsAlways(reps, report_id) == TRUE

ReportExists(reps, report_id) == \E i \in 1..Len(reps) : reps[i].id = report_id

\* the variant that replaces the row by a fresh one holding the section alone
update_section_fresh_row(reps, report_id, section, data, t) ==
    LET column_name == ColumnName(section)
    IN  Strict([i \in 1..Len(reps) |->
            IF reps[i].id = report_id
            THEN [SetAttr(SetAttr(NewReport(reps[i].id, reps[i].repository_id,
                                            reps[i].timeframe, reps[i].timeframe_start,
                                            reps[i].timeframe_end, reps[i].created_at),
                                  column_name, Some(data)),
                          GeneratedAtAttr(column_name), Some(t))
                     EXCEPT !.written_at[section] = Some(t)]
            ELSE reps[i]])

\* the table after update_section (the caller checks ReportExists); written_at
\* is a history field, not a column: the instant of the last update_section
update_section(reps, report_id, section, data, t) ==
    LET column_name == ColumnName(section)
    IN  Strict([i \in 1..Len(reps) |->
            IF reps[i].id = report_id
            THEN [SetAttr(SetAttr(reps[i], column_name, Some(data)),
                          GeneratedAtAttr(column_name), Some(t))
                     EXCEPT !.written_at[section] = Some(t)]
            ELSE reps[i]])

-----------------------------------------------------------------------------
(* repositories/repositories.py and repositories/user_repositories.py *)

get_by_full_name(repos, full_name) ==
    {i \in 1..Len(repos) : repos[i].full_name = full_name}

\* upsert by full_name: returns the table and the row's id
get_or_create_repository(repos, full_name, meta) ==
    LET idx == get_by_full_name(repos, full_name)
    IN  IF idx # {}
        THEN LET i == CHOOSE i \in idx : TRUE
             IN  [repositories |-> [repos EXCEPT ![i].meta = meta], id |-> repos[i].id]
        ELSE [repositories |-> Append(repos, [id |-> Len(repos) + 1,
                                              full_name |-> full_name, meta |-> meta]),
              id |-> Len(repos) + 1]

track_repository(tracks, user_id, repository_id) ==
    IF <<user_id, repository_id>> \in tracks THEN tracks
    ELSE tracks \cup {<<user_id, repository_id>>}

-----------------------------------------------------------------------------
(* database/models/group.py, utils/group_config.py, api/helpers/groups.py,
   utils/url.py and repositories/groups.py.  A name, a slug and a description
   are texts of characters; a repository reference is what the client typed:
   a URL or not, and the parts of its path between the slashes. *)

GroupRow(id, slug, name, description, repos, is_system, created_by_id) ==
    [id |-> id, slug |-> slug, name |-> name, description |-> description,
     repos |-> repos, is_system |-> is_system, created_by_id |-> created_by_id]

\* the groups table after seed_system_groups at startup (one definition
\* file), and the last value of the table's id sequence
Seeded ==
    [rows |-> <<GroupRow(1, <<"a">>, <<"A">>, Some(<<"A">>), << <<"o", "w">> >>,
                         TRUE, None)>>,
     last_id |-> 1]

RECURSIVE LStrip(_, _)
LStrip(text, c) ==
    IF text # <<>> /\ Head(text) = c THEN LStrip(Tail(text), c) ELSE text

RECURSIVE RStrip(_, _)
RStrip(text, c) ==
    IF text # <<>> /\ text[Len(text)] = c
    THEN RStrip(SubSeq(text, 1, Len(text) - 1), c) ELSE text

\* str.strip() of a text whose only whitespace is the blank
StripBlanks(text) == RStrip(LStrip(text, " "), " ")

Lower(c) == IF c = "A" THEN "a" ELSE c

RECURSIVE Collapse(_)
\* runs of hyphens become one hyphen
Collapse(text) ==
    IF Len(text) <= 1 THEN text
    ELSE IF text[1] = "-" /\ text[2] = "-" THEN Collapse(Tail(text))
    ELSE <<text[1]>> \o Collapse(Tail(text))

generate_slug(name) ==
    LET lowered == StripBlanks(Strict([i \in 1..Len(name) |-> Lower(name[i])]))
        hyphened == Collapse(Strict([i \in 1..Len(lowered) |->
                        IF lowered[i] \in {"a", "0"} THEN lowered[i] ELSE "-"]))
        trimmed == RStrip(LStrip(hyphened, "-"), "-")
        slug == IF Len(trimmed) > 64 THEN SubSeq(trimmed, 1, 64) ELSE trimmed
    IN  IF slug = <<>> THEN <<"g", "r", "o", "u", "p">> ELSE slug

get_by_slug(rows, slug) == {i \in 1..Len(rows) : rows[i].slug = slug}

RECURSIVE ensure_unique_slug(_, _, _)
\* base_slug, then base_slug-1, base_slug-2, ... until no row has the slug
ensure_unique_slug(rows, base_slug, suffix) ==
    LET slug == IF suffix = 0 THEN base_slug ELSE base_slug \o <<"-", suffix>>
    IN  IF get_by_slug(rows, slug) = {} THEN slug
        ELSE ensure_unique_slug(rows, base_slug, suffix + 1)

\* normalize_repo_reference: the (owner, name) of a reference, or ValueError
ValidReference(ref) == Len(ref.parts) >= 2

normalize_repo_reference(ref) ==
    IF ref.url THEN SubSeq(ref.parts, 1, 2) ELSE ref.parts

RECURSIVE Dedupe(_, _)
\* list(dict.fromkeys(normalized))
Dedupe(items, seen) ==
    IF items = <<>> THEN <<>>
    ELSE IF Head(items) \in seen THEN Dedupe(Tail(items), seen)
    ELSE <<Head(items)>> \o Dedupe(Tail(items), seen \cup {Head(items)})

\* the normalized identifiers, or None when a reference is invalid (HTTP 400)
normalize_repos(repos) ==
    IF \E i \in 1..Len(repos) : ~ValidReference(repos[i]) THEN None
    ELSE Some(Dedupe(Strict([i \in 1..Len(repos) |->
                                normalize_repo_reference(repos[i])]), {}))

\* GroupsRepository.create_group: the table afterwards
create_group(table, name, slug, repos, description, is_system, created_by_id) ==
    [rows |-> Append(table.rows,
                     GroupRow(table.last_id + 1, slug, name, description, repos,
                              is_system, created_by_id)),
     last_id |-> table.last_id + 1]

\* GroupsRepository.update_group of the row at position i: an argument that
\* is None leaves its attribute alone
update_group(table, i, name, description, repos) ==
    [table EXCEPT
        !.rows[i].name = IF IsNone(name) THEN @ ELSE name[1],
        !.rows[i].description = IF IsNone(description) THEN @ ELSE description,
        !.rows[i].repos = IF IsNone(repos) THEN @ ELSE repos[1]]

\* GroupsRepository.delete_group of the row at position i
delete_group(table, i) ==
    [table EXCEPT !.rows = SubSeq(@, 1, i - 1) \o SubSeq(@, i + 1, Len(@))]

-----------------------------------------------------------------------------
(* services/github_client.py, utils/serializers.py, services/issue_summary.py *)

base_engagement(item) == item.comments + item.reactions

\* sorted(..., reverse=True) on the keys given: stable, equal keys keep their
\* input order
SortDesc(s, keys) ==
    LET Rank(i) == Cardinality({j \in 1..Len(s) :
                        keys[j] > keys[i] \/ (keys[j] = keys[i] /\ j < i)}) + 1
    IN  Strict([k \in 1..Len(s) |-> s[CHOOSE i \in 1..Len(s) : Rank(i) = k]])

compute_score(item) ==
        base_engagement(item)
        + (IF item.login \in TopContributors \/ item.author_association \in {"OWNER", "MEMBER"}
           THEN 10
           ELSE IF item.author_association = "COLLABORATOR" THEN 5
           ELSE IF item.author_association = "CONTRIBUTOR" THEN 3
           ELSE 0)
        + 3 * Cardinality({i \in 1..Len(item.assignees) :
                               item.assignees[i] \in TopContributors})

\* the variant that cuts the list after the scoring and not before it
score_sort_items_cuts_last(items) ==
    LET by_score ==
            SortDesc(items, Strict([i \in 1..Len(items) |-> compute_score(items[i])]))
    IN  SubSeq(by_score, 1,
               IF Len(items) < MAX_ITEMS_PER_SECTION THEN Len(items)
               ELSE MAX_ITEMS_PER_SECTION)

\* the items in the order of the (score, item) pairs returned
score_sort_items(items) ==
    LET by_engagement ==
            SortDesc(items, Strict([i \in 1..Len(items) |-> base_engagement(items[i])]))
        top == SubSeq(by_engagement, 1,
                      IF Len(items) < MAX_ITEMS_PER_SECTION THEN Len(items)
                      ELSE MAX_ITEMS_PER_SECTION)
    IN  SortDesc(top, Strict([i \in 1..Len(top) |-> compute_score(top[i])]))

serialize_github_item(item) ==
    [number |-> item.number, title |-> item.title, login |-> item.login,
     is_pull_request |-> item.is_pull_request, summary |-> None]

\* the variant that leaves out the items whose call failed
summarize_items_drops_failed(items, failing) ==
    LET Done(item) == item.number \notin failing
        kept == SelectSeq(items, Done)
    IN  Strict([i \in 1..Len(kept) |->
            [kept[i] EXCEPT !.summary = Some(SummaryText(kept[i]))]])

\* one model call per item; a failed call leaves the empty summary
summarize_items(items, failing) ==
    Strict([i \in 1..Len(items) |->
        [items[i] EXCEPT !.summary =
            Some(IF items[i].number \in failing THEN <<>> ELSE SummaryText(items[i]))]])

\* fetch -> rank -> serialize -> summarize, as each section pipeline does
Pipeline(raw, failing) ==
    LET scored == score_sort_items(raw)
        github_items == Strict([i \in 1..Len(scored) |-> serialize_github_item(scored[i])])
    IN  summarize_items(github_items, failing)

-----------------------------------------------------------------------------
(* services/tldr_generator.py and services/people_summary.py *)

RECURSIVE Join(_)
\* "\n".join(texts)
Join(texts) ==
    IF Len(texts) = 0 THEN <<>>
    ELSE IF Len(texts) = 1 THEN texts[1]
    ELSE texts[1] \o <<"\n">> \o Join(Tail(texts))

RECURSIVE Concat(_)
Concat(chunks) == IF chunks = <<>> THEN <<>> ELSE Head(chunks) \o Concat(Tail(chunks))

HasSummary(item) == Truthy(item.summary)

\* the variant that keeps the empty summaries too
SummariesUnfiltered(items) ==
    Strict([i \in 1..Len(items) |-> items[i].summary[1]])

\* [item.summary for item in items if item.summary]
Summaries(items) ==
    LET kept == SelectSeq(items, HasSummary)
    IN  Strict([i \in 1..Len(kept) |-> kept[i].summary[1]])

\* tldr(text, stream=False): the digest, or the error text when the call fails
tldr_batch(text, agg_ok) == IF agg_ok THEN Digest(text) ELSE ERR_SUMMARY

\* the variant whose error_stream yields nothing
tldr_stream_silent(text, chunks, agg_ok) == IF agg_ok THEN chunks ELSE <<>>

\* tldr(text, stream=True): the generator's chunks; a failed call gives error_stream
tldr_stream(text, chunks, agg_ok) == IF agg_ok THEN chunks ELSE <<ERR_SUMMARY>>

Prefix(s, n) == SubSeq(s, 1, IF Len(s) < n THEN Len(s) ELSE n)

\* logins in the insertion order of the contributors dict
Contributors(prs, issues) ==
    LET all == prs \o issues
        logins == {all[i].login : i \in 1..Len(all)}
        First(l) == CHOOSE i \in 1..Len(all) :
                        all[i].login = l /\ \A j \in 1..(i - 1) : all[j].login # l
    IN  Strict([k \in 1..Cardinality(logins) |->
            CHOOSE l \in logins :
                Cardinality({m \in logins : First(m) < First(l)}) = k - 1])

ContributorRecord(login, prs, issues, agg_ok) ==
    LET By(item) == item.login = login
        mine_prs == SelectSeq(prs, By)
        mine_issues == SelectSeq(issues, By)
        all_items == Prefix(mine_prs, MAX_ITEMS_PER_SECTION)
                     \o Prefix(mine_issues, MAX_ITEMS_PER_SECTION)
        summaries == Summaries(all_items)
    IN  [username |-> login,
         tldr |-> IF Len(summaries) > 0 THEN tldr_batch(Join(summaries), agg_ok) ELSE <<>>,
         prs |-> mine_prs, issues |-> mine_issues,
         total_items |-> Len(mine_prs) + Len(mine_issues),
         called |-> Len(summaries) > 0]

\* the variant that returns the contributors in the order of the dict
generate_people_summaries_unsorted(prs, issues, agg_ok) ==
    LET logins == Contributors(prs, issues)
    IN  Prefix(Strict([k \in 1..Len(logins) |->
                   ContributorRecord(logins[k], prs, issues, agg_ok)]), TopPeople)

generate_people_summaries(prs, issues, agg_ok) ==
    LET logins == Contributors(prs, issues)
        people_summaries == Strict([k \in 1..Len(logins) |->
                                ContributorRecord(logins[k], prs, issues, agg_ok)])
        totals == Strict([k \in 1..Len(logins) |-> people_summaries[k].total_items])
    IN  Prefix(SortDesc(people_summaries, totals), TopPeople)

\* number of Aggregator calls generate_people_summaries makes
PeopleAggCalls(prs, issues) ==
    LET logins == Contributors(prs, issues)
    IN  Cardinality({k \in 1..Len(logins) :
                        ContributorRecord(logins[k], prs, issues, TRUE).called})

Numbers(items) == Strict([i \in 1..Len(items) |-> items[i].number])

\* the contributor entry as it is stored; its items are kept by their number
PersonDump(p) ==
    [username |-> p.username, tldr |-> p.tldr,
     prs |-> Numbers(p.prs), issues |-> Numbers(p.issues),
     total_items |-> p.total_items]

-----------------------------------------------------------------------------
(* Requests *)

\* a request slot: the handler's position and what the request did and answered
Idle ==
    [pc |-> "idle", section |-> "", timeframe |-> "", force |-> FALSE,
     skip_expiration_check |-> FALSE, at |-> 0,
     resp |-> "", data |-> None, deps_cached |-> FALSE,
     fetch_calls |-> 0, summarize_calls |-> 0, agg_calls |-> 0, writes |-> 0,
     failed |-> {}, stream |-> <<>>, stream_fails |-> FALSE, from_cache |-> FALSE,
     accumulated_text |-> <<>>, out |-> <<>>,
     user |-> "", full_name |-> "", meta |-> "", range |-> None,
     prs_list |-> <<>>, issues_list |-> <<>>, failing |-> {}]

\* a database session outside a request: no transaction, nothing pending
Closed ==
    [pc |-> "closed", section |-> "", timeframe |-> "", force |-> FALSE,
     user |-> "", full_name |-> "", meta |-> "", range |-> None,
     existing_repo |-> None, repo_id |-> 0, report_id |-> 0,
     data |-> None, cached |-> FALSE, resp |-> "", error |-> "",
     new_repositories |-> <<>>, dirty_repositories |-> {}, new_tracking |-> {},
     new_reports |-> <<>>, dirty_reports |-> {}]

Init ==
    /\ now = 0
    /\ repositories = <<>>
    /\ user_repositories = {}
    /\ reports = <<>>
    /\ req = [r \in Reqs |-> Idle]
    /\ sessions = [s \in Sessions |-> Closed]
    /\ groups = Seeded

\* time passes
Tick ==
    /\ \E t \in ClockInstants : t > now /\ now' = t
    /\ UNCHANGED <<repositories, user_repositories, reports, req, sessions, groups>>

\* no handler of the request slot is running
Startable(r) == req[r].pc \in {"idle", "done", "cancelled"}

\* the Repository row id the upsert of full_name resolves to
RepoId(full_name) == get_or_create_repository(repositories, full_name, "").id

\* the model follows the Report of one (repository, timeframe) pair: the pair
\* of the first request that creates a row
Admissible(full_name, timeframe) ==
    \/ Matching(reports, RepoId(full_name), timeframe) # {}
    \/ reports = <<>>

ItemType(section) == IF section = "prs" THEN "pr" ELSE "issue"

\* get_or_create_report_record, update_section: the reports table afterwards
WriteSection(reps, repo_id, timeframe, range, section, data, t) ==
    LET got == get_or_create_report_record(reps, repo_id, timeframe,
                                           range.start, range.end, t)
    IN  update_section(got.reports, got.id, section, data, t)

\* the session's flushed Repository and tracking rows are committed
Commit(up, user) ==
    /\ repositories' = up.repositories
    /\ user_repositories' = track_repository(user_repositories, user, up.id)

\* the handler raised: get_db rolls the session back
Rollback == UNCHANGED <<repositories, user_repositories>>

Begun(section, timeframe, force) ==
    [Idle EXCEPT !.pc = "done", !.section = section, !.timeframe = timeframe,
                 !.force = force]

\* the request ends with HTTP 400 and the session is rolled back
Fails(r, section, timeframe, force, calls, who) ==
    /\ req' = [req EXCEPT ![r] =
                 [Begun(section, timeframe, force) EXCEPT
                    !.resp = "error", !.fetch_calls = calls, !.failed = who]]
    /\ Rollback
    /\ UNCHANGED reports

\* some summarization call of the pipeline raised (and was absorbed)
SummarizerFailed(raw, failing) ==
    \E i \in 1..Len(raw) : raw[i].number \in failing

(* get_prs_section / get_issues_section, the whole handler; the collaborators'
   answers are drawn where the handler calls them *)
GetItemsSection(r, section, timeframe, force, user, full_name) ==
    /\ Startable(r)
    /\ Admissible(full_name, timeframe)
    /\ UNCHANGED <<now, groups>>
    /\ \E repo_ok \in BOOLEAN :
        IF ~repo_ok
        THEN \* get_repo raises before anything is flushed
             Fails(r, section, timeframe, force, 0, {"get_repo"})
        ELSE \E meta \in Metas :
            LET up == get_or_create_repository(repositories, full_name, meta)
                range == resolve_timeframe(timeframe, utcnow(now))
                cached_items ==
                    IF force THEN None
                    ELSE get_cached_section(reports, up.id, timeframe, section, FALSE, now)
            IN  IF Truthy(cached_items)
                THEN \* cache hit; get_db commits the session
                     /\ req' = [req EXCEPT ![r] =
                                  [Begun(section, timeframe, force) EXCEPT
                                     !.resp = "cached", !.data = cached_items]]
                     /\ Commit(up, user)
                     /\ UNCHANGED reports
                ELSE \E fetch_ok \in BOOLEAN :
                    IF ~fetch_ok
                    THEN \* get_repo_activity raises
                         Fails(r, section, timeframe, force, 1, {"fetcher"})
                    ELSE \E raw \in SearchResults(ItemType(section)),
                            failing \in SummarizeFailures :
                        LET summarized == Pipeline(raw, failing)
                        IN  /\ req' = [req EXCEPT ![r] =
                                         [Begun(section, timeframe, force) EXCEPT
                                            !.resp = "generated",
                                            !.data = Some(summarized),
                                            !.fetch_calls = 1,
                                            !.summarize_calls = 1,
                                            !.failed =
                                                IF SummarizerFailed(raw, failing)
                                                THEN {"summarizer"} ELSE {},
                                            !.writes = 1]]
                            /\ reports' = WriteSection(reports, up.id, timeframe, range,
                                                       section, summarized, now)
                            /\ Commit(up, user)

\* the variant that also stores the PRs and issues it had to regenerate
PeopleGeneratedStoringDependencies(r, timeframe, force, user, up, range, prs_list, issues_list, use_cached, absorbed, agg_ok) ==
    LET summaries == generate_people_summaries(prs_list, issues_list, agg_ok)
        people_summaries ==
            Strict([i \in 1..Len(summaries) |-> PersonDump(summaries[i])])
        calls == PeopleAggCalls(prs_list, issues_list)
        with_prs ==
            IF use_cached THEN reports
            ELSE WriteSection(reports, up.id, timeframe, range, "prs", prs_list, now)
        with_issues ==
            IF use_cached THEN reports
            ELSE WriteSection(with_prs, up.id, timeframe, range, "issues",
                              issues_list, now)
    IN  /\ req' = [req EXCEPT ![r] =
                     [Begun("people", timeframe, force) EXCEPT
                        !.resp = "generated",
                        !.data = Some(people_summaries),
                        !.deps_cached = use_cached,
                        !.fetch_calls = IF use_cached THEN 0 ELSE 2,
                        !.summarize_calls = IF use_cached THEN 0 ELSE 2,
                        !.agg_calls = calls,
                        !.failed = (IF ~agg_ok /\ calls > 0 THEN {"aggregator"} ELSE {})
                                   \cup (IF absorbed THEN {"summarizer"} ELSE {}),
                        !.writes = 3]]
        /\ reports' = WriteSection(with_issues, up.id, timeframe, range,
                                   "people", people_summaries, now)
        /\ Commit(up, user)

\* the people handler's result once prs_list and issues_list are known
PeopleGenerated(r, timeframe, force, user, up, range, prs_list, issues_list, use_cached, absorbed, agg_ok) ==
    LET summaries == generate_people_summaries(prs_list, issues_list, agg_ok)
        people_summaries ==
            Strict([i \in 1..Len(summaries) |-> PersonDump(summaries[i])])
        calls == PeopleAggCalls(prs_list, issues_list)
    IN  /\ req' = [req EXCEPT ![r] =
                     [Begun("people", timeframe, force) EXCEPT
                        !.resp = "generated",
                        !.data = Some(people_summaries),
                        !.deps_cached = use_cached,
                        !.fetch_calls = IF use_cached THEN 0 ELSE 2,
                        !.summarize_calls = IF use_cached THEN 0 ELSE 2,
                        !.agg_calls = calls,
                        !.failed = (IF ~agg_ok /\ calls > 0 THEN {"aggregator"} ELSE {})
                                   \cup (IF absorbed THEN {"summarizer"} ELSE {}),
                        !.writes = 1]]
        /\ reports' = WriteSection(reports, up.id, timeframe, range,
                                   "people", people_summaries, now)
        /\ Commit(up, user)

(* get_people_section, the whole handler *)
GetPeopleSection(r, timeframe, force, user, full_name) ==
    /\ Startable(r)
    /\ Admissible(full_name, timeframe)
    /\ UNCHANGED <<now, groups>>
    /\ \E repo_ok \in BOOLEAN :
        IF ~repo_ok
        THEN Fails(r, "people", timeframe, force, 0, {"get_repo"})
        ELSE \E meta \in Metas :
            LET up == get_or_create_repository(repositories, full_name, meta)
                range == resolve_timeframe(timeframe, utcnow(now))
                cached_people ==
                    IF force THEN None
                    ELSE get_cached_section(reports, up.id, timeframe, "people", FALSE, now)
                cached_prs_data ==
                    get_cached_section(reports, up.id, timeframe, "prs", TRUE, now)
                cached_issues_data ==
                    get_cached_section(reports, up.id, timeframe, "issues", TRUE, now)
            IN  IF Truthy(cached_people)
                THEN /\ req' = [req EXCEPT ![r] =
                                  [Begun("people", timeframe, force) EXCEPT
                                     !.resp = "cached", !.data = cached_people]]
                     /\ Commit(up, user)
                     /\ UNCHANGED reports
                ELSE IF Truthy(cached_prs_data) /\ Truthy(cached_issues_data)
                THEN \E agg_ok \in BOOLEAN :
                        PeopleGenerated(r, timeframe, force, user, up, range,
                                        cached_prs_data[1], cached_issues_data[1],
                                        TRUE, FALSE, agg_ok)
                ELSE \E failing_call \in 0..2 :
                    IF failing_call > 0
                    THEN \* the first or the second get_repo_activity raises
                         Fails(r, "people", timeframe, force, failing_call, {"fetcher"})
                    ELSE \E raw_prs \in SearchResults("pr"),
                            raw_issues \in SearchResults("issue"),
                            failing \in SummarizeFailures, agg_ok \in BOOLEAN :
                        PeopleGenerated(r, timeframe, force, user, up, range,
                                        Pipeline(raw_prs, failing),
                                        Pipeline(raw_issues, failing),
                                        FALSE,
                                        SummarizerFailed(raw_prs \o raw_issues, failing),
                                        agg_ok)

GetItems ==
    /\ UNCHANGED sessions
    /\ \E section \in {"prs", "issues"}, timeframe \in Watched, force \in BOOLEAN,
       user \in Users, full_name \in FullNames :
        GetItemsSection(MainReq, section, timeframe, force, user, full_name)

GetPeople ==
    /\ UNCHANGED sessions
    /\ \E timeframe \in Watched, force \in BOOLEAN, user \in Users,
       full_name \in FullNames :
        GetPeopleSection(MainReq, timeframe, force, user, full_name)

\* the variant that leaves out a last slice shorter than size
SlicesWholeOnly(text, size) ==
    Strict([k \in 1..(Len(text) \div size) |->
               SubSeq(text, (k - 1) * size + 1, k * size)])

RECURSIVE Slices(_, _)
\* [text[i : i + size] for i in range(0, len(text), size)]
Slices(text, size) ==
    IF Len(text) = 0 THEN <<>>
    ELSE IF Len(text) <= size THEN <<text>>
    ELSE <<SubSeq(text, 1, size)>> \o Slices(SubSeq(text, size + 1, Len(text)), size)

\* the session's repository upsert of a tldr request
Upserted(r) == get_or_create_repository(repositories, req[r].full_name, req[r].meta)

(* a tldr generator that ends without db.commit(): whether get_db's commit
   reaches the rows the generator flushed depends on when the framework
   finalizes the dependency, before the body is streamed or after it *)
SessionEnds(up, user) ==
    \E committed \in BOOLEAN : IF committed THEN Commit(up, user) ELSE Rollback

\* the variant that creates the Report row before it looks at the dependencies
DependencyMissingAfterCreate(r, timeframe, force, user, up) ==
    LET range == resolve_timeframe(timeframe, utcnow(now))
    IN  /\ req' = [req EXCEPT ![r] =
                     [Begun("tldr", timeframe, force) EXCEPT
                        !.resp = "dependency_missing", !.out = <<ERR_DEPENDENCY>>]]
        /\ reports' = get_or_create_report_record(reports, up.id, timeframe,
                                                  range.start, range.end, now).reports
        /\ Commit(up, user)

\* a dependency is None: the message is the only chunk and nothing is stored
DependencyMissing(r, timeframe, force, user, up) ==
    /\ req' = [req EXCEPT ![r] =
                 [Begun("tldr", timeframe, force) EXCEPT
                    !.resp = "dependency_missing", !.out = <<ERR_DEPENDENCY>>]]
    /\ SessionEnds(up, user)
    /\ UNCHANGED reports

(* get_tldr_section.generate_stream from its start to the first chunk: the
   repository upsert, the cache read, the dependency reads and the call of
   the Aggregator *)
TldrOpen(r, timeframe, force, user, full_name) ==
    /\ Startable(r)
    /\ Admissible(full_name, timeframe)
    /\ UNCHANGED <<now, groups>>
    /\ \E repo_ok \in BOOLEAN :
        IF ~repo_ok
        THEN \* get_repo raises: the generator yields the error line and ends
             /\ req' = [req EXCEPT ![r] =
                          [Begun("tldr", timeframe, force) EXCEPT
                             !.resp = "error", !.failed = {"get_repo"},
                             !.out = <<ERR_ROUTE>>]]
             /\ Rollback
             /\ UNCHANGED reports
        ELSE \E meta \in Metas, db_ok \in BOOLEAN :
            LET up == get_or_create_repository(repositories, full_name, meta)
                range == resolve_timeframe(timeframe, utcnow(now))
                Streaming == [Begun("tldr", timeframe, force) EXCEPT
                                !.pc = "streaming", !.meta = meta,
                                !.full_name = full_name, !.user = user,
                                !.range = Some(range)]
                cached_tldr ==
                    IF force THEN None
                    ELSE get_cached_section(reports, up.id, timeframe, "tldr", FALSE, now)
                cached_prs_data ==
                    get_cached_section(reports, up.id, timeframe, "prs", TRUE, now)
                cached_issues_data ==
                    get_cached_section(reports, up.id, timeframe, "issues", TRUE, now)
            IN  IF ~db_ok
                THEN \* a statement of the session raises: the error line, the end
                     /\ req' = [req EXCEPT ![r] =
                                  [Begun("tldr", timeframe, force) EXCEPT
                                     !.resp = "error", !.failed = {"database"},
                                     !.out = <<ERR_ROUTE>>]]
                     /\ Rollback
                     /\ UNCHANGED reports
                ELSE IF Truthy(cached_tldr)
                THEN \* cache hit: the stored text is replayed in slices
                     /\ req' = [req EXCEPT ![r] =
                                  [Streaming EXCEPT
                                     !.from_cache = TRUE,
                                     !.stream = Slices(cached_tldr[1], chunk_size)]]
                     /\ Rollback
                     /\ UNCHANGED reports
                ELSE IF IsNone(cached_prs_data) \/ IsNone(cached_issues_data)
                THEN DependencyMissing(r, timeframe, force, user, up)
                ELSE LET summaries == Summaries(cached_prs_data[1])
                                      \o Summaries(cached_issues_data[1])
                     IN  IF Len(summaries) = 0
                         THEN \* nothing to digest: the stream is empty
                              /\ req' = [req EXCEPT ![r] =
                                           [Begun("tldr", timeframe, force) EXCEPT
                                              !.resp = "empty", !.deps_cached = TRUE]]
                              /\ SessionEnds(up, user)
                              /\ UNCHANGED reports
                         ELSE \E agg_ok \in BOOLEAN, chunks \in AggStreams,
                                 stream_fails \in BOOLEAN :
                              /\ agg_ok \/ (chunks = <<>> /\ ~stream_fails)
                              /\ req' = [req EXCEPT ![r] =
                                           [Streaming EXCEPT
                                              !.deps_cached = TRUE,
                                              !.agg_calls = 1,
                                              !.failed =
                                                  IF agg_ok /\ ~stream_fails THEN {}
                                                  ELSE {"aggregator"},
                                              !.stream_fails = stream_fails,
                                              !.stream =
                                                  tldr_stream(Join(summaries), chunks,
                                                              agg_ok)]]
                              /\ Rollback
                              /\ UNCHANGED reports

\* the variant that keeps the last chunk instead of appending it
TldrChunkKeepsLast(r) ==
    /\ req[r].pc = "streaming"
    /\ req[r].stream # <<>>
    /\ req' = [req EXCEPT
                 ![r].out = Append(@, Head(req[r].stream)),
                 ![r].accumulated_text =
                     IF req[r].from_cache THEN @ ELSE Head(req[r].stream),
                 ![r].stream = Tail(@)]
    /\ UNCHANGED <<now, groups, repositories, user_repositories, reports>>

\* async for chunk in generator: accumulated_text += chunk; yield chunk
TldrChunk(r) ==
    /\ req[r].pc = "streaming"
    /\ req[r].stream # <<>>
    /\ req' = [req EXCEPT
                 ![r].out = Append(@, Head(req[r].stream)),
                 ![r].accumulated_text =
                     IF req[r].from_cache THEN @ ELSE @ \o Head(req[r].stream),
                 ![r].stream = Tail(@)]
    /\ UNCHANGED <<now, groups, repositories, user_repositories, reports>>

\* the stream is exhausted: the replay ends, or the stream raises, or the
\* accumulated text is stored and committed
TldrEnd(r) ==
    /\ req[r].pc = "streaming"
    /\ req[r].stream = <<>>
    /\ UNCHANGED <<now, groups>>
    /\ LET up == Upserted(r)
       IN  IF req[r].from_cache
           THEN /\ req' = [req EXCEPT ![r].pc = "done", ![r].resp = "cached"]
                /\ SessionEnds(up, req[r].user)
                /\ UNCHANGED reports
           ELSE IF req[r].stream_fails
           THEN \* except Exception: the error line is the last chunk
                /\ req' = [req EXCEPT ![r].pc = "done", ![r].resp = "error",
                                      ![r].out = Append(@, ERR_ROUTE)]
                /\ SessionEnds(up, req[r].user)
                /\ UNCHANGED reports
           ELSE \E db_ok \in BOOLEAN :
                IF ~db_ok
                THEN \* the write or the commit raises: the error line comes last
                     /\ req' = [req EXCEPT ![r].pc = "done", ![r].resp = "error",
                                           ![r].failed = @ \cup {"database"},
                                           ![r].out = Append(@, ERR_ROUTE)]
                     /\ Rollback
                     /\ UNCHANGED reports
                ELSE /\ req' = [req EXCEPT ![r].pc = "done", ![r].resp = "generated",
                                           ![r].data = Some(req[r].accumulated_text),
                                           ![r].writes = 1]
                     /\ reports' = WriteSection(reports, up.id, req[r].timeframe,
                                                req[r].range[1], "tldr",
                                                req[r].accumulated_text, now)
                     /\ Commit(up, req[r].user)

\* the variant that stores what was accumulated when the consumer goes away
DisconnectStoresPartial(r) ==
    /\ req[r].pc = "streaming"
    /\ req' = [req EXCEPT ![r].pc = "cancelled", ![r].resp = "cancelled"]
    /\ reports' = IF req[r].from_cache THEN reports
                  ELSE WriteSection(reports, Upserted(r).id, req[r].timeframe,
                                    req[r].range[1], "tldr",
                                    req[r].accumulated_text, now)
    /\ Commit(Upserted(r), req[r].user)
    /\ UNCHANGED <<now, groups>>

\* the consumer goes away: the generator is closed where it stands
Disconnect(r) ==
    /\ req[r].pc = "streaming"
    /\ req' = [req EXCEPT ![r].pc = "cancelled", ![r].resp = "cancelled"]
    /\ Rollback
    /\ UNCHANGED <<now, groups, reports>>

GetTldr ==
    /\ UNCHANGED sessions
    /\ \E timeframe \in Watched, force \in BOOLEAN, user \in Users,
       full_name \in FullNames :
        TldrOpen(MainReq, timeframe, force, user, full_name)

Chunk == TldrChunk(MainReq) /\ UNCHANGED sessions

StreamEnd == TldrEnd(MainReq) /\ UNCHANGED sessions

Hangup == Disconnect(MainReq) /\ UNCHANGED sessions

-----------------------------------------------------------------------------
(* The storage layer alone: what every handler does to store a section and
   to read one *)

Payloads(section) ==
    IF section = "tldr" THEN {Concat(SubSeq(ChunkPool, 1, MaxChunks))}
    ELSE IF section = "prs" THEN {<<>>, Pipeline(<<pr1>>, {})}
    ELSE {Pipeline(<<is3>>, {})}

\* upsert the repository, get_or_create_report_record, update_section, commit
PersistSection(r, section, timeframe, data, user, full_name) ==
    /\ Startable(r)
    /\ Admissible(full_name, timeframe)
    /\ LET up == get_or_create_repository(repositories, full_name, "m1")
       IN  /\ reports' = WriteSection(reports, up.id, timeframe,
                                      resolve_timeframe(timeframe, utcnow(now)),
                                      section, data, now)
           /\ Commit(up, user)
    /\ req' = [req EXCEPT ![r] =
                 [Begun(section, timeframe, FALSE) EXCEPT
                    !.resp = "stored", !.data = Some(data), !.writes = 1]]
    /\ UNCHANGED <<now, groups>>

\* one call of get_cached_section; the answer is kept in the slot
ReadSection(r, section, timeframe, skip_expiration_check, full_name) ==
    /\ Startable(r)
    /\ req' = [req EXCEPT ![r] =
                 [Begun(section, timeframe, FALSE) EXCEPT
                    !.resp = "read", !.at = now,
                    !.full_name = full_name,
                    !.skip_expiration_check = skip_expiration_check,
                    !.data = get_cached_section(reports, RepoId(full_name), timeframe,
                                                section, skip_expiration_check, now)]]
    /\ UNCHANGED <<now, groups, repositories, user_repositories, reports>>

Persist ==
    /\ UNCHANGED sessions
    /\ \E section \in Sections, timeframe \in Timeframe, user \in Users,
       full_name \in FullNames :
        \E data \in Payloads(section) :
            PersistSection(MainReq, section, timeframe, data, user, full_name)

Read ==
    /\ UNCHANGED sessions
    /\ \E section \in Sections, timeframe \in Timeframe, skip \in BOOLEAN,
       full_name \in FullNames :
        ReadSection(MainReq, section, timeframe, skip, full_name)

\* the ids update_section is called with: the id of the row and an id of no row
ReportIds == {1, 2}

\* one call of update_section and the commit, or the ValueError it raises
UpdateSectionCall(r, report_id, section, data) ==
    /\ Startable(r)
    /\ IF ~ReportExists(reports, report_id)
       THEN /\ req' = [req EXCEPT ![r] =
                         [Begun(section, "", FALSE) EXCEPT
                            !.resp = "ValueError", !.at = report_id]]
            /\ UNCHANGED reports
       ELSE /\ req' = [req EXCEPT ![r] =
                         [Begun(section, "", FALSE) EXCEPT
                            !.resp = "updated", !.at = report_id,
                            !.data = Some(data), !.writes = 1]]
            /\ reports' = update_section(reports, report_id, section, data, now)
    /\ UNCHANGED <<now, groups, repositories, user_repositories>>

Update ==
    /\ UNCHANGED sessions
    /\ \E report_id \in ReportIds, section \in Sections :
          \E data \in Payloads(section) :
              UpdateSectionCall(MainReq, report_id, section, data)

-----------------------------------------------------------------------------
(* generate_people_summaries alone, on lists of summarized items *)

\* the longest list of items drawn author by author
MaxAuthored == 3

Regulars == {"alice", "bob", "carol"}

\* six authors, one more than the contributors kept
Crowd == <<"alice", "bob", "carol", "dave", "erin", "frank">>

RECURSIVE LoginSeqs(_)
\* the sequences of at most n logins of the regular authors
LoginSeqs(n) ==
    IF n = 0 THEN {<<>>}
    ELSE LET shorter == LoginSeqs(n - 1)
         IN  shorter \cup {Append(l, a) : l \in {x \in shorter : Len(x) = n - 1},
                                           a \in Regulars}

\* the authors of the items of an input list, item by item
LoginLists == LoginSeqs(MaxAuthored) \cup {Crowd, Crowd \o <<"frank">>}

\* a summarized GitHubItem per login
Authored(logins, pr) ==
    Strict([i \in 1..Len(logins) |->
        [number |-> i, title |-> "t", login |-> logins[i], is_pull_request |-> pr,
         summary |-> Some(<<"s">>)]])

\* the arguments of the call are in the request slot
InitSummaries ==
    /\ now = 0
    /\ repositories = <<>>
    /\ user_repositories = {}
    /\ reports = <<>>
    /\ sessions = [s \in Sessions |-> Closed]
    /\ groups = Seeded
    /\ \E prs \in LoginLists, issues \in LoginLists :
          req = [r \in Reqs |->
                   [Idle EXCEPT !.prs_list = Authored(prs, TRUE),
                                !.issues_list = Authored(issues, FALSE)]]

\* one call of generate_people_summaries
Summarize ==
    /\ req[MainReq].pc = "idle"
    /\ \E agg_ok \in BOOLEAN :
          req' = [req EXCEPT
                    ![MainReq].pc = "done", ![MainReq].resp = "summarized",
                    ![MainReq].agg_calls =
                        PeopleAggCalls(req[MainReq].prs_list, req[MainReq].issues_list),
                    ![MainReq].data =
                        Some(generate_people_summaries(req[MainReq].prs_list,
                                                       req[MainReq].issues_list, agg_ok))]
    /\ UNCHANGED <<now, groups, repositories, user_repositories, reports, sessions>>

-----------------------------------------------------------------------------
(* resolve_timeframe alone, called again and again while the clock moves *)

\* the last day the clock reaches
MaxDays == 2

\* the minutes the clock shows: the first, the second, a middle and the last
\* minute of each day
DateInstants == {d * MinutesPerDay + m : d \in 0..MaxDays, m \in {0, 1, 720, 1439}}

\* the microseconds past the minute at which a call reads the clock
SubMinute == {0, 1, 59999999}

\* the tokens a caller passes: the four timeframes and two others
Tokens == Timeframe \cup {"decade", ""}

\* the clock moves on
Pass ==
    /\ \E t \in DateInstants : t > now /\ now' = t
    /\ UNCHANGED <<repositories, user_repositories, reports, req, sessions, groups>>

\* one call of resolve_timeframe; the request slot keeps the clock reading,
\* the token and the outcome
Resolve ==
    /\ \E timeframe \in Tokens, us \in SubMinute :
          LET dt == [minute |-> now, us |-> us]
              got == resolve_timeframe(timeframe, dt)
              raised == "raised" \in DOMAIN got
          IN  req' = [req EXCEPT ![MainReq] =
                        [Idle EXCEPT !.pc = "done", !.timeframe = timeframe,
                                     !.at = now, !.data = Some(dt),
                                     !.resp = IF raised THEN got.raised ELSE "resolved",
                                     !.range = IF raised THEN None ELSE Some(got)]]
    /\ UNCHANGED <<now, groups, repositories, user_repositories, reports, sessions>>

-----------------------------------------------------------------------------
(* The tldr handler over a Report whose sections are all stored *)

\* the lengths of the tldr text the Aggregator once streamed
StoredLengths == {1, 49, 50, 51, 100, 101}

\* a text of n characters
TextOf(n) == Strict([i \in 1..n |-> i])

\* the tables after a prs, an issues and a tldr request of the user
InitStored ==
    /\ now = 0
    /\ req = [r \in Reqs |-> Idle]
    /\ sessions = [s \in Sessions |-> Closed]
    /\ groups = Seeded
    /\ \E full_name \in FullNames, user \in Users, meta \in Metas, timeframe \in Watched,
          n \in StoredLengths :
          LET up == get_or_create_repository(<<>>, full_name, meta)
              range == resolve_timeframe(timeframe, utcnow(0))
              with_prs == WriteSection(<<>>, up.id, timeframe, range, "prs",
                                       Pipeline(<<pr1, pr2>>, {}), 0)
              with_issues == WriteSection(with_prs, up.id, timeframe, range, "issues",
                                          Pipeline(<<is3>>, {}), 0)
          IN  /\ repositories = up.repositories
              /\ user_repositories = track_repository({}, user, up.id)
              /\ reports = WriteSection(with_issues, up.id, timeframe, range, "tldr",
                                        TextOf(n), 0)

\* the sections the prs and issues requests before the first people or tldr
\* request have stored
StoredBefore == SUBSET {"prs", "issues"}

\* the tables after the prs and issues requests of stored, in that order
InitDerived ==
    /\ now = 0
    /\ req = [r \in Reqs |-> Idle]
    /\ sessions = [s \in Sessions |-> Closed]
    /\ groups = Seeded
    /\ \E full_name \in FullNames, user \in Users, meta \in Metas, timeframe \in Watched,
          stored \in StoredBefore :
          LET up == get_or_create_repository(<<>>, full_name, meta)
              range == resolve_timeframe(timeframe, utcnow(0))
              with_prs ==
                  IF "prs" \in stored
                  THEN WriteSection(<<>>, up.id, timeframe, range, "prs",
                                    Pipeline(<<pr1, pr2>>, {}), 0)
                  ELSE <<>>
          IN  /\ repositories = IF stored = {} THEN <<>> ELSE up.repositories
              /\ user_repositories =
                    IF stored = {} THEN {} ELSE track_repository({}, user, up.id)
              /\ reports =
                    IF "issues" \in stored
                    THEN WriteSection(with_prs, up.id, timeframe, range, "issues",
                                      Pipeline(<<is3>>, {}), 0)
                    ELSE with_prs

-----------------------------------------------------------------------------
(* A request and its collaborators, await by await (api/routes/reports.py,
   services/github_client.py, services/issue_summary.py,
   services/tldr_generator.py).  The handler stops at each external call
   until the collaborator answers or raises; no call carries a timeout. *)

Awaits == {"fetch", "summarize", "aggregate"}

\* the numbers of the items: every one of the summarization calls may raise
AllFailing(raw) == {raw[i].number : i \in 1..Len(raw)}

\* the handler runs up to its first external call, or to its end on a hit
ExternalCall ==
    /\ Startable(MainReq)
    /\ UNCHANGED <<now, groups, reports, sessions>>
    /\ \E section \in {"prs", "issues", "tldr"}, timeframe \in Watched, force \in BOOLEAN,
          user \in Users, full_name \in FullNames, meta \in Metas :
          LET up == get_or_create_repository(repositories, full_name, meta)
              called == [Begun(section, timeframe, force) EXCEPT
                           !.user = user, !.full_name = full_name, !.meta = meta,
                           !.range = Some(resolve_timeframe(timeframe, utcnow(now)))]
              cached == IF force THEN None
                        ELSE get_cached_section(reports, up.id, timeframe, section,
                                                FALSE, now)
              prs == get_cached_section(reports, up.id, timeframe, "prs", TRUE, now)
              issues == get_cached_section(reports, up.id, timeframe, "issues", TRUE, now)
          IN  /\ Admissible(full_name, timeframe)
              /\ IF Truthy(cached)
                 THEN /\ req' = [req EXCEPT ![MainReq] =
                                   [called EXCEPT !.resp = "cached", !.data = cached]]
                      /\ Commit(up, user)
                 ELSE IF section # "tldr"
                 THEN \* await get_repo_activity(...)
                      /\ req' = [req EXCEPT ![MainReq] =
                                   [called EXCEPT !.pc = "fetch", !.fetch_calls = 1]]
                      /\ Rollback
                 ELSE \* generator = await generate_tldr(...); async for chunk in generator
                      /\ ~IsNone(prs) /\ ~IsNone(issues)
                      /\ Len(Summaries(prs[1]) \o Summaries(issues[1])) > 0
                      /\ req' = [req EXCEPT ![MainReq] =
                                   [called EXCEPT !.pc = "aggregate", !.agg_calls = 1,
                                                  !.data = Some(Join(Summaries(prs[1])
                                                                 \o Summaries(issues[1])))]]
                      /\ Rollback

\* the collaborator the handler waits for answers, or the call raises; of
\* the gathered summarization calls each one answers or raises
Answer ==
    /\ req[MainReq].pc \in Awaits
    /\ req[MainReq].resp = ""
    /\ IF req[MainReq].pc = "summarize"
       THEN \E failing \in SUBSET AllFailing(req[MainReq].data[1]) :
              req' = [req EXCEPT
                        ![MainReq].resp = IF failing = {} THEN "answered" ELSE "raised",
                        ![MainReq].failing = failing]
       ELSE \E ok \in BOOLEAN :
              req' = [req EXCEPT ![MainReq].resp = IF ok THEN "answered" ELSE "raised"]
    /\ UNCHANGED <<now, groups, repositories, user_repositories, reports, sessions>>

\* score_sort_items and serialize_github_item, between the two awaits
Ranked(raw) ==
    LET scored == score_sort_items(raw)
    IN  Strict([i \in 1..Len(scored) |-> serialize_github_item(scored[i])])

\* the section is stored and the request is over
StoreAwaited(data, who) ==
    LET q == req[MainReq]
        up == Upserted(MainReq)
    IN  /\ req' = [req EXCEPT ![MainReq].pc = "done",
                              ![MainReq].resp = "generated",
                              ![MainReq].data = Some(data),
                              ![MainReq].failed = who,
                              ![MainReq].writes = 1]
        /\ reports' = WriteSection(reports, up.id, q.timeframe, q.range[1],
                                   q.section, data, now)
        /\ Commit(up, q.user)

\* the handler goes on from the call that has answered or raised
Proceed ==
    /\ req[MainReq].pc \in Awaits
    /\ req[MainReq].resp # ""
    /\ UNCHANGED <<now, groups, sessions>>
    /\ \/ \* get_repo_activity raised: except Exception, HTTPException(400)
          /\ req[MainReq].pc = "fetch"
          /\ req[MainReq].resp = "raised"
          /\ req' = [req EXCEPT ![MainReq].pc = "done",
                                ![MainReq].resp = "error",
                                ![MainReq].failed = {"fetcher"}]
          /\ Rollback
          /\ UNCHANGED reports
       \/ \* no item: asyncio.gather() of no task returns at once
          /\ req[MainReq].pc = "fetch"
          /\ req[MainReq].resp = "answered"
          /\ <<>> \in SearchResults(ItemType(req[MainReq].section))
          /\ StoreAwaited(<<>>, {})
       \/ \* await summarize_items(...)
          /\ req[MainReq].pc = "fetch"
          /\ req[MainReq].resp = "answered"
          /\ \E raw \in SearchResults(ItemType(req[MainReq].section)) \ {<<>>} :
                req' = [req EXCEPT ![MainReq].pc = "summarize",
                                   ![MainReq].resp = "",
                                   ![MainReq].summarize_calls = 1,
                                   ![MainReq].data = Some(Ranked(raw))]
          /\ Rollback
          /\ UNCHANGED reports
       \/ \* a summarization that raised left the empty summary
          /\ req[MainReq].pc = "summarize"
          /\ StoreAwaited(summarize_items(req[MainReq].data[1], req[MainReq].failing),
                          IF req[MainReq].resp = "raised" THEN {"summarizer"} ELSE {})
       \/ \* the Aggregator's text, or the error text of tldr()
          /\ req[MainReq].pc = "aggregate"
          /\ StoreAwaited(IF req[MainReq].resp = "raised" THEN ERR_SUMMARY
                          ELSE Digest(req[MainReq].data[1]),
                          IF req[MainReq].resp = "raised" THEN {"aggregator"} ELSE {})

-----------------------------------------------------------------------------
(* The item pipeline of a miss alone, on fetched lists longer than the cap *)

\* the longest list the Activity Fetcher returns
MaxFetched == 12

Associations == <<"NONE", "MEMBER", "CONTRIBUTOR", "COLLABORATOR", "OWNER", "NONE", "NONE">>

Authors == <<"alice", "bob", "carol", "dave">>

\* the i-th item of the repository's activity, with the engagement of a day
Fetched(i, day) ==
    RawItem(i, "t", Authors[(i % 4) + 1], (i * 7 + day) % 5, (i * 3 + day) % 4,
            Associations[((i + day) % 7) + 1], TRUE)

\* the lists the Activity Fetcher returns: n items from the k-th on
FetchedLists ==
    {Strict([j \in 1..n |-> Fetched(((k + j) % MaxFetched) + 1, day)]) :
        n \in {0, 1, 10, 11, MaxFetched}, k \in 1..MaxFetched, day \in 0..3}

\* the fetched list is in the request slot
InitFetched ==
    /\ now = 0
    /\ repositories = <<>>
    /\ user_repositories = {}
    /\ reports = <<>>
    /\ sessions = [s \in Sessions |-> Closed]
    /\ groups = Seeded
    /\ \E raw \in FetchedLists :
          req = [r \in Reqs |-> [Idle EXCEPT !.prs_list = raw]]

\* score_sort_items, serialize_github_item and summarize_items on the list
RankAndSummarize ==
    /\ req[MainReq].pc = "idle"
    /\ \E failing \in SummarizeFailures :
          req' = [req EXCEPT
                    ![MainReq].pc = "done", ![MainReq].resp = "generated",
                    ![MainReq].section = "prs", ![MainReq].failing = failing,
                    ![MainReq].summarize_calls = 1,
                    ![MainReq].issues_list = score_sort_items(req[MainReq].prs_list),
                    ![MainReq].data = Some(Pipeline(req[MainReq].prs_list, failing))]
    /\ UNCHANGED <<now, groups, repositories, user_repositories, reports, sessions>>

-----------------------------------------------------------------------------
(* Concurrent requests (api/routes/reports.py, api/routes/users.py).  Each
   request has its own database session, that is its own transaction (get_db); the isolation level is the database's
   default, READ COMMITTED: a SELECT sees the committed rows and the
   session's own writes, an INSERT whose unique key is held by another
   session's uncommitted INSERT waits for that session to end and fails with
   IntegrityError when the key is committed, an UPDATE of a row another
   session has updated waits for that session to end.  The prs / issues
   handler is one step per statement it awaits. *)

\* what a concurrent request asks for: a section of the report, or that the
\* repository be tracked (POST /users/me/repositories)
Asked == {"prs", "issues", "track"}

\* the metadata get_repo returns to the request of a session
SessionMeta(s) == IF s = "s1" THEN "m1" ELSE "m2"

Others(s) == Sessions \ {s}

\* what the Activity Fetcher returns for a repository with activity
Activity(item_type) == SearchResults(item_type) \ {<<>>}

MaxOf(S) == CHOOSE n \in S : \A m \in S : m <= n

\* the next value of a table's id sequence
NextId(ids) == IF ids = {} THEN 1 ELSE MaxOf(ids) + 1

Ids(rows) == {rows[i].id : i \in 1..Len(rows)}

\* the variant that orders by created_at ascending
Earliest(reps, idx) ==
    {i \in idx : \A j \in idx : reps[j].created_at >= reps[i].created_at}

\* the rows ORDER BY created_at DESC LIMIT 1 can return: the order of rows
\* with equal created_at is not specified
Latest(reps, idx) ==
    {i \in idx : \A j \in idx : reps[j].created_at <= reps[i].created_at}

\* the unique key of a Report row
ReportKey(row) ==
    <<row.repository_id, row.timeframe, row.timeframe_start, row.timeframe_end>>

\* the session's request ends with an exception: get_db rolls back
Abort(s, error) ==
    sessions' = [sessions EXCEPT ![s] =
                   [Closed EXCEPT !.pc = "done", !.resp = "error", !.error = error,
                                  !.section = sessions[s].section]]

\* get_repo, resolve_timeframe and the SELECT of get_or_create_repository
Start(s, section, timeframe, force, user, full_name) ==
    /\ sessions[s].pc \in {"closed", "done"}
    /\ \E repo_ok \in BOOLEAN :
        IF ~repo_ok
        THEN sessions' = [sessions EXCEPT ![s] =
                            [Closed EXCEPT !.pc = "done", !.resp = "error",
                                           !.error = "get_repo", !.section = section]]
        ELSE LET idx == get_by_full_name(repositories, full_name)
             IN  sessions' = [sessions EXCEPT ![s] =
                    [Closed EXCEPT
                       !.pc = "flush_repository", !.section = section,
                       !.timeframe = timeframe, !.force = force, !.user = user,
                       !.full_name = full_name, !.meta = SessionMeta(s),
                       !.range = Some(resolve_timeframe(timeframe, utcnow(now))),
                       !.existing_repo =
                           IF idx = {} THEN None
                           ELSE Some(repositories[CHOOSE i \in idx : TRUE])]]
    /\ UNCHANGED <<now, groups, repositories, user_repositories, reports, req>>

\* the flush of get_or_create_repository: UPDATE of the row found (when an
\* attribute changed) or INSERT of a new row
FlushRepository(s) ==
    LET q == sessions[s]
    IN  /\ q.pc = "flush_repository"
        /\ UNCHANGED <<now, groups, repositories, user_repositories, reports, req>>
        /\ IF q.existing_repo # None
           THEN LET row == q.existing_repo[1]
                IN  IF row.meta = q.meta
                    THEN sessions' = [sessions EXCEPT ![s].pc = "get_tracking",
                                                      ![s].existing_repo = None,
                                                      ![s].repo_id = row.id]
                    ELSE /\ \A t \in Others(s) :
                               \A d \in sessions[t].dirty_repositories : d.id # row.id
                         /\ sessions' = [sessions EXCEPT
                               ![s].pc = "get_tracking", ![s].repo_id = row.id,
                               ![s].existing_repo = None,
                               ![s].dirty_repositories = {[id |-> row.id, meta |-> q.meta]}]
           ELSE /\ \A t \in Others(s) :
                      \A i \in 1..Len(sessions[t].new_repositories) :
                          sessions[t].new_repositories[i].full_name # q.full_name
                /\ IF get_by_full_name(repositories, q.full_name) # {}
                   THEN Abort(s, "IntegrityError")
                   ELSE LET id == NextId(Ids(repositories))
                        IN  sessions' = [sessions EXCEPT
                               ![s].pc = "get_tracking", ![s].repo_id = id,
                               ![s].new_repositories =
                                   <<[id |-> id, full_name |-> q.full_name,
                                      meta |-> q.meta]>>]

\* track_repository: the SELECT of get_tracking
GetTracking(s) ==
    LET q == sessions[s]
    IN  /\ q.pc = "get_tracking"
        /\ sessions' = [sessions EXCEPT ![s].pc =
                           IF <<q.user, q.repo_id>> \notin user_repositories
                           THEN "flush_tracking"
                           ELSE IF q.section = "track" THEN "commit"
                           ELSE "cached_section"]
        /\ UNCHANGED <<now, groups, repositories, user_repositories, reports, req>>

\* track_repository: the INSERT of the tracking link
FlushTracking(s) ==
    LET q == sessions[s]
        link == <<q.user, q.repo_id>>
    IN  /\ q.pc = "flush_tracking"
        /\ \A t \in Others(s) : link \notin sessions[t].new_tracking
        /\ IF link \in user_repositories
           THEN Abort(s, "IntegrityError")
           ELSE sessions' = [sessions EXCEPT
                   ![s].pc = IF q.section = "track" THEN "commit"
                             ELSE "cached_section",
                   ![s].new_tracking = {link}]
        /\ UNCHANGED <<now, groups, repositories, user_repositories, reports, req>>

\* get_cached_section and, on a miss, the fetch pipeline
CachedSection(s) ==
    LET q == sessions[s]
        cached_items ==
            IF q.force THEN None
            ELSE get_cached_section(reports, q.repo_id, q.timeframe, q.section, FALSE, now)
    IN  /\ q.pc = "cached_section"
        /\ UNCHANGED <<now, groups, repositories, user_repositories, reports, req>>
        /\ IF Truthy(cached_items)
           THEN sessions' = [sessions EXCEPT ![s].pc = "commit", ![s].cached = TRUE,
                                             ![s].resp = "cached",
                                             ![s].data = cached_items]
           ELSE \E fetch_ok \in BOOLEAN :
                   IF ~fetch_ok THEN Abort(s, "fetcher")
                   ELSE \E raw \in Activity(ItemType(q.section)) :
                           sessions' = [sessions EXCEPT
                               ![s].pc = "select_report", ![s].resp = "generated",
                               ![s].data = Some(Pipeline(raw, {}))]

\* get_or_create_report_record: the SELECT
SelectReport(s) ==
    LET q == sessions[s]
        idx == Matching(reports, q.repo_id, q.timeframe)
    IN  /\ q.pc = "select_report"
        /\ UNCHANGED <<now, groups, repositories, user_repositories, reports, req>>
        /\ IF idx = {}
           THEN sessions' = [sessions EXCEPT ![s].pc = "flush_report"]
           ELSE \E i \in Latest(reports, idx) :
                   sessions' = [sessions EXCEPT ![s].pc = "update_section",
                                                ![s].report_id = reports[i].id]

\* get_or_create_report_record: the INSERT of the new row
FlushReport(s) ==
    LET q == sessions[s]
        id == NextId(Ids(reports) \cup
                     UNION {Ids(sessions[t].new_reports) : t \in Others(s)})
        row == NewReport(id, q.repo_id, q.timeframe, q.range[1].start,
                         q.range[1].end, now)
    IN  /\ q.pc = "flush_report"
        /\ UNCHANGED <<now, groups, repositories, user_repositories, reports, req>>
        /\ \A t \in Others(s) :
              \A i \in 1..Len(sessions[t].new_reports) :
                  ReportKey(sessions[t].new_reports[i]) # ReportKey(row)
        /\ IF \E i \in 1..Len(reports) : ReportKey(reports[i]) = ReportKey(row)
           THEN Abort(s, "IntegrityError")
           ELSE sessions' = [sessions EXCEPT ![s].pc = "update_section",
                                             ![s].report_id = id,
                                             ![s].new_reports = <<row>>]

\* update_section: the row is the session's own new row or a committed one
FlushSection(s) ==
    LET q == sessions[s]
    IN  /\ q.pc = "update_section"
        /\ UNCHANGED <<now, groups, repositories, user_repositories, reports, req>>
        /\ IF ReportExists(q.new_reports, q.report_id)
           THEN sessions' = [sessions EXCEPT
                   ![s].pc = "commit",
                   ![s].new_reports = update_section(q.new_reports, q.report_id,
                                                     q.section, q.data[1], now)]
           ELSE IF ~ReportExists(reports, q.report_id)
           THEN Abort(s, "ValueError")
           ELSE /\ \A t \in Others(s) :
                      \A d \in sessions[t].dirty_reports : d.id # q.report_id
                /\ sessions' = [sessions EXCEPT
                      ![s].pc = "commit",
                      ![s].dirty_reports = {[id |-> q.report_id, section |-> q.section,
                                             data |-> q.data[1], at |-> now]}]

\* the committed repositories table with the session's UPDATEs applied
CommittedRepositories(repos, dirty) ==
    Strict([i \in 1..Len(repos) |->
        IF \E d \in dirty : d.id = repos[i].id
        THEN [repos[i] EXCEPT !.meta = (CHOOSE d \in dirty : d.id = repos[i].id).meta]
        ELSE repos[i]])

RECURSIVE CommittedReports(_, _)
\* the committed reports table with the session's UPDATEs applied
CommittedReports(reps, dirty) ==
    IF dirty = {} THEN reps
    ELSE LET d == CHOOSE d \in dirty : TRUE
         IN  CommittedReports(update_section(reps, d.id, d.section, d.data, d.at),
                              dirty \ {d})

\* db.commit(): the session's writes become the committed rows
CommitSession(s) ==
    LET q == sessions[s]
    IN  /\ q.pc = "commit"
        /\ repositories' =
               CommittedRepositories(repositories, q.dirty_repositories)
               \o q.new_repositories
        /\ user_repositories' = user_repositories \cup q.new_tracking
        /\ reports' = CommittedReports(reports, q.dirty_reports) \o q.new_reports
        /\ sessions' = [sessions EXCEPT ![s] =
               [Closed EXCEPT !.pc = "done", !.section = q.section, !.resp = q.resp,
                              !.data = q.data, !.report_id = q.report_id]]
        /\ UNCHANGED <<now, groups, req>>

\* midnight passes: resolve_timeframe gives the next day's boundaries
NextDay ==
    /\ now < MinutesPerDay
    /\ now' = now + MinutesPerDay
    /\ UNCHANGED <<repositories, user_repositories, reports, req, sessions, groups>>

Begin ==
    \E s \in Sessions, section \in Asked, timeframe \in Watched,
       force \in {FALSE}, user \in Users, full_name \in FullNames :
        Start(s, section, timeframe, force, user, full_name)

\* what a client of the tracking routes asks for next to a section
TrackAsked == {"track", "prs"}

BeginTracking ==
    \E s \in Sessions, section \in TrackAsked, timeframe \in Watched,
       user \in Users, full_name \in FullNames :
        Start(s, section, timeframe, FALSE, user, full_name)

\* the table after untrack_repository
untrack_repository(tracks, user_id, repository_id) ==
    tracks \ {<<user_id, repository_id>>}

(* DELETE /users/me/repositories, the whole request while no other statement
   runs: get_by_full_name, untrack_repository and get_db's commit *)
UntrackRequest(s, user, full_name) ==
    LET idx == get_by_full_name(repositories, full_name)
        answer(resp, error) ==
            [Closed EXCEPT !.pc = "done", !.section = "untrack", !.user = user,
                           !.full_name = full_name, !.resp = resp, !.error = error]
    IN  /\ sessions[s].pc \in {"closed", "done"}
        /\ UNCHANGED <<now, groups, repositories, reports, req>>
        /\ IF idx = {}
           THEN /\ sessions' = [sessions EXCEPT ![s] = answer("error", "404")]
                /\ UNCHANGED user_repositories
           ELSE LET id == repositories[CHOOSE i \in idx : TRUE].id
                IN  /\ sessions' = [sessions EXCEPT ![s] =
                          [answer(IF <<user, id>> \in user_repositories
                                  THEN "untracked" ELSE "not tracked", "")
                             EXCEPT !.repo_id = id]]
                    /\ user_repositories' = untrack_repository(user_repositories, user, id)

Untrack ==
    \E s \in Sessions, user \in Users, full_name \in FullNames :
        UntrackRequest(s, user, full_name)

UpsertRepository == \E s \in Sessions : FlushRepository(s)

LookupTracking == \E s \in Sessions : GetTracking(s)

TrackRepository == \E s \in Sessions : FlushTracking(s)

LookupSection == \E s \in Sessions : CachedSection(s)

LookupReport == \E s \in Sessions : SelectReport(s)

CreateReport == \E s \in Sessions : FlushReport(s)

UpdateSection == \E s \in Sessions : FlushSection(s)

CommitRequest == \E s \in Sessions : CommitSession(s)

-----------------------------------------------------------------------------
(* Group requests (api/routes/groups.py).  Each route is one step: its
   lookups, its checks, the repository call and the commit.  The answer is the
   HTTP status, kept in the request slot with the route, the caller and the
   slug the request addressed or created. *)

\* the authenticated users that call the group routes
Members == {"u1", "u2"}

\* the id sequence of the groups table is followed up to this value
MaxGroupId == 3

\* names a client sends (min_length 1)
GroupNames == {<<"A">>, <<" ">>}

Descriptions == {None, Some(<<"a", " ">>)}

\* repository lists a client sends: another repository, owner/name and a URL
\* of the same repository; owner/name and a reference with no slash
RepoLists ==
    { << [url |-> FALSE, parts |-> <<"o", "x">>],
         [url |-> FALSE, parts |-> <<"o", "w">>],
         [url |-> TRUE, parts |-> <<"o", "w", "pulls">>] >>,
      << [url |-> FALSE, parts |-> <<"o", "w">>],
         [url |-> FALSE, parts |-> <<"o">>] >> }

\* the slugs a request addresses: those of the table and one of no group
Addressable == {groups.rows[i].slug : i \in 1..Len(groups.rows)} \cup {<<"0">>}

GroupAnswer(route, user, slug, status) ==
    [Idle EXCEPT !.pc = "done", !.section = route, !.user = user,
                 !.data = Some(slug), !.resp = status]

\* payload.x.strip() if payload.x else None
StrippedOrNone(text) ==
    IF Truthy(text) THEN Some(StripBlanks(text[1])) ELSE None

\* POST /groups
CreateGroupRoute(user, name, repos, description) ==
    LET slug == ensure_unique_slug(groups.rows, generate_slug(name), 0)
        normalized_repos == normalize_repos(repos)
    IN  IF IsNone(normalized_repos)
        THEN /\ req' = [req EXCEPT ![MainReq] =
                          GroupAnswer("create_group", user, slug, "400")]
             /\ UNCHANGED groups
        ELSE /\ groups' = create_group(groups, StripBlanks(name), slug,
                                       normalized_repos[1],
                                       StrippedOrNone(description), FALSE, Some(user))
             /\ req' = [req EXCEPT ![MainReq] =
                          GroupAnswer("create_group", user, slug, "201")]

\* the variant that checks neither is_system nor the creator
UpdateGroupRouteUnchecked(user, group_id, name, repos, description) ==
    LET idx == get_by_slug(groups.rows, group_id)
        i == CHOOSE i \in idx : TRUE
    IN  IF idx = {}
        THEN /\ req' = [req EXCEPT ![MainReq] =
                          GroupAnswer("update_group", user, group_id, "404")]
             /\ UNCHANGED groups
        ELSE /\ groups' = update_group(groups, i, StrippedOrNone(name),
                                       StrippedOrNone(description), None)
             /\ req' = [req EXCEPT ![MainReq] =
                          GroupAnswer("update_group", user, group_id, "200")]

\* PUT /groups/{group_id}
UpdateGroupRoute(user, group_id, name, repos, description) ==
    LET idx == get_by_slug(groups.rows, group_id)
        i == CHOOSE i \in idx : TRUE
        normalized_repos == IF IsNone(repos) THEN None ELSE normalize_repos(repos[1])
        Refused(status) ==
            /\ req' = [req EXCEPT ![MainReq] =
                          GroupAnswer("update_group", user, group_id, status)]
            /\ UNCHANGED groups
    IN  IF idx = {} THEN Refused("404")
        ELSE IF groups.rows[i].is_system THEN Refused("403")
        ELSE IF groups.rows[i].created_by_id # Some(user) THEN Refused("404")
        ELSE IF ~IsNone(repos) /\ IsNone(normalized_repos) THEN Refused("400")
        ELSE /\ groups' = update_group(groups, i, StrippedOrNone(name),
                                       StrippedOrNone(description), normalized_repos)
             /\ req' = [req EXCEPT ![MainReq] =
                          GroupAnswer("update_group", user, group_id, "200")]

\* DELETE /groups/{group_id}
DeleteGroupRoute(user, group_id) ==
    LET idx == get_by_slug(groups.rows, group_id)
        i == CHOOSE i \in idx : TRUE
        Refused(status) ==
            /\ req' = [req EXCEPT ![MainReq] =
                          GroupAnswer("delete_group", user, group_id, status)]
            /\ UNCHANGED groups
    IN  IF idx = {} THEN Refused("404")
        ELSE IF groups.rows[i].is_system THEN Refused("403")
        ELSE IF groups.rows[i].created_by_id # Some(user) THEN Refused("404")
        ELSE /\ groups' = delete_group(groups, i)
             /\ req' = [req EXCEPT ![MainReq] =
                          GroupAnswer("delete_group", user, group_id, "204")]

\* GET /groups/{group_id}
GetGroupRoute(user, group_id) ==
    LET idx == get_by_slug(groups.rows, group_id)
        i == CHOOSE i \in idx : TRUE
        visible == idx # {} /\ (groups.rows[i].is_system
                                \/ groups.rows[i].created_by_id = Some(user))
    IN  /\ req' = [req EXCEPT ![MainReq] =
                     GroupAnswer("get_group", user, group_id,
                                 IF visible THEN "200" ELSE "404")]
        /\ UNCHANGED groups

CreateGroup ==
    /\ groups.last_id < MaxGroupId
    /\ \E user \in Members, name \in GroupNames, repos \in RepoLists,
          description \in Descriptions :
          CreateGroupRoute(user, name, repos, description)
    /\ UNCHANGED <<now, repositories, user_repositories, reports, sessions>>

UpdateGroup ==
    /\ \E user \in Members, group_id \in Addressable,
          name \in {None} \cup {Some(n) : n \in GroupNames},
          repos \in {None} \cup {Some(l) : l \in RepoLists},
          description \in Descriptions :
          UpdateGroupRoute(user, group_id, name, repos, description)
    /\ UNCHANGED <<now, repositories, user_repositories, reports, sessions>>

DeleteGroup ==
    /\ \E user \in Members, group_id \in Addressable :
          DeleteGroupRoute(user, group_id)
    /\ UNCHANGED <<now, repositories, user_repositories, reports, sessions>>

GetGroup ==
    /\ \E user \in Members, group_id \in Addressable :
          GetGroupRoute(user, group_id)
    /\ UNCHANGED <<now, repositories, user_repositories, reports, sessions>>

-----------------------------------------------------------------------------
(* search_github_items alone (services/github_client.py, config.py): the
   rate limit read, the search request and the fetch of every item found *)

\* some of the logins of config.COMMON_GITHUB_BOTS; the source's set has the
\* element "codiumai" "gpt-engineer-bot", one string
COMMON_GITHUB_BOTS ==
    {"dependabot[bot]", "renovate[bot]", "github-actions[bot]",
     "codiumaigpt-engineer-bot", "sweep"}

\* str.lower() of the logins of the model
LowerLogin(user_login) ==
    CASE user_login = "Renovate[bot]" -> "renovate[bot]"
      [] user_login = "Alice" -> "alice"
      [] OTHER -> user_login

is_bot(user_login) == LowerLogin(user_login) \in COMMON_GITHUB_BOTS

\* the default of the parameter rate_limit_buffer
rate_limit_buffer == 100

\* the variant with the comparison the other way round
is_near_rate_limit_inverted(remaining, threshold) == remaining > threshold

is_near_rate_limit(remaining, threshold) == remaining < threshold

RECURSIVE UniqueById(_, _)
\* the items that are not None, each id once, in the order found
UniqueById(fetched_items, seen_ids) ==
    IF fetched_items = <<>> THEN <<>>
    ELSE LET item == Head(fetched_items)
         IN  IF IsNone(item) \/ item[1].id \in seen_ids
             THEN UniqueById(Tail(fetched_items), seen_ids)
             ELSE <<item[1]>> \o UniqueById(Tail(fetched_items),
                                            seen_ids \cup {item[1].id})

\* fetch_item of every raw item: None for an item whose fetch raises
FetchAll(items, unfetched) ==
    Strict([i \in 1..Len(items) |->
               IF items[i].number \in unfetched THEN None ELSE Some(items[i])])

\* what the call returns, whether it raised, and the search requests it issued
search_github_items(remaining, search_ok, items, unfetched) ==
    IF is_near_rate_limit(remaining, rate_limit_buffer)
    THEN [requests |-> 0, raised |-> FALSE, items |-> <<>>]
    ELSE IF ~search_ok
    THEN [requests |-> 1, raised |-> TRUE, items |-> <<>>]
    ELSE [requests |-> 1, raised |-> FALSE,
          items |-> UniqueById(FetchAll(items, unfetched), {})]

\* the longest answer of the search request
MaxFound == 3

\* items the search can find: two of bots, one of a person
Found ==
    {[id |-> 10, number |-> 1, login |-> "dependabot[bot]"],
     [id |-> 11, number |-> 2, login |-> "Alice"],
     [id |-> 12, number |-> 3, login |-> "Renovate[bot]"]}

RECURSIVE Responses(_)
\* the answers of the search request of at most n items
Responses(n) ==
    IF n = 0 THEN {<<>>}
    ELSE LET shorter == Responses(n - 1)
         IN  shorter \cup {Append(r, item) : r \in shorter, item \in Found}

\* remaining requests of the core rate limit
Remaining == {0, 99, 100, 101}

Search ==
    /\ \E remaining \in Remaining, search_ok \in BOOLEAN,
          items \in Responses(MaxFound), unfetched \in SUBSET {1, 2} :
          LET got == search_github_items(remaining, search_ok, items, unfetched)
          IN  req' = [req EXCEPT ![MainReq] =
                        [Idle EXCEPT !.pc = "done", !.section = "search",
                                     !.data = Some([remaining |-> remaining,
                                                    items |-> items,
                                                    unfetched |-> unfetched]),
                                     !.fetch_calls = got.requests,
                                     !.resp = IF got.raised THEN "error" ELSE "ok",
                                     !.out = got.items]]
    /\ UNCHANGED <<now, groups, repositories, user_repositories, reports, sessions>>

-----------------------------------------------------------------------------
(* Specifications *)

NextCache == Tick \/ Persist \/ Read

SpecCache == Init /\ [][NextCache]_vars

NextSummaries == Summarize

SpecSummaries == InitSummaries /\ [][NextSummaries]_vars

NextDates == Pass \/ Resolve

SpecDates == Init /\ [][NextDates]_vars

NextReplay == Tick \/ GetTldr \/ Chunk \/ StreamEnd \/ Hangup

SpecReplay == InitStored /\ [][NextReplay]_vars

NextWait == ExternalCall \/ Answer \/ Proceed

\* the event loop resumes a coroutine whose awaited call has answered or raised
SpecWait == Init /\ [][NextWait]_vars /\ WF_vars(Proceed)

NextRank == RankAndSummarize

SpecRank == InitFetched /\ [][NextRank]_vars

NextStore == Persist \/ Update

SpecStore == Init /\ [][NextStore]_vars

NextPeople == GetItems \/ GetPeople

SpecPeople == Init /\ [][NextPeople]_vars

NextGroups == CreateGroup \/ UpdateGroup \/ DeleteGroup \/ GetGroup

SpecGroups == Init /\ [][NextGroups]_vars

NextSearch == Search

SpecSearch == Init /\ [][NextSearch]_vars

NextDerived == Tick \/ GetPeople \/ GetTldr \/ Chunk \/ StreamEnd \/ Hangup

SpecDerived == InitDerived /\ [][NextDerived]_vars

NextTrack ==
    \/ BeginTracking \/ Untrack \/ UpsertRepository \/ LookupTracking
    \/ TrackRepository \/ LookupSection \/ LookupReport \/ CreateReport
    \/ UpdateSection \/ CommitRequest

SpecTrack == Init /\ [][NextTrack]_vars

NextSections == GetItems \/ GetPeople \/ GetTldr \/ Chunk \/ StreamEnd \/ Hangup

SpecSections == Init /\ [][NextSections]_vars

NextTldr == Tick \/ GetItems \/ GetTldr \/ Chunk \/ StreamEnd \/ Hangup

SpecTldr == Init /\ [][NextTldr]_vars

NextRace ==
    \/ NextDay \/ Begin \/ UpsertRepository \/ LookupTracking \/ TrackRepository
    \/ LookupSection \/ LookupReport \/ CreateReport \/ UpdateSection \/ CommitRequest

SpecRace == Init /\ [][NextRace]_vars

Next == Tick \/ GetItems \/ GetPeople \/ GetTldr \/ Chunk \/ StreamEnd \/ Hangup

Spec == Init /\ [][Next]_vars

-----------------------------------------------------------------------------
(* Properties.  The model follows one (repository, timeframe) pair, so the
   reports table holds at most one row. *)

StampColumn(section) ==
    CASE section = "prs" -> "prs_generated_at"
      [] section = "issues" -> "issues_generated_at"
      [] section = "people" -> "people_generated_at"
      [] section = "tldr" -> "tldr_generated_at"

\* the stored payload of a section, None when there is no row or no payload
SectionData(reps, section) ==
    IF reps = <<>> THEN None ELSE reps[1][ColumnName(section)]

\* the stored generated_at column of a section
SectionStamp(reps, section) ==
    IF reps = <<>> THEN None ELSE reps[1][StampColumn(section)]

\* the row a read of the storage layer addresses
Addressed(q) == reports # <<>> /\ reports[1].timeframe = q.timeframe

(* C1: for every section and every timeframe, a read without
   skip_expiration_check of a section written at time T returns the stored
   payload when the read is made at most 60 minutes after T and None when it
   is made more than 60 minutes after T. *)
C1_FreshnessWindow ==
    LET q == req[MainReq]
    IN  (q.resp = "read" /\ ~q.skip_expiration_check /\ Addressed(q)) =>
            LET T == reports[1].written_at[q.section]
            IN  T # None =>
                    IF q.at - T[1] <= CacheMaxAge
                    THEN q.data = SectionData(reports, q.section)
                    ELSE q.data = None

(* C2: a read with skip_expiration_check returns the stored payload of the
   pair's row whenever the section's column is set, whatever its age, and
   None only when the pair has no row or the column is unset. *)
C2_SkipExpiration ==
    LET q == req[MainReq]
    IN  (q.resp = "read" /\ q.skip_expiration_check) =>
            q.data = IF Addressed(q) THEN SectionData(reports, q.section) ELSE None

\* a payload older than the threshold was returned by a read that skips the check
C2_Witness ==
    LET q == req[MainReq]
    IN  /\ q.resp = "read" /\ q.skip_expiration_check /\ Addressed(q)
        /\ q.section = "prs"
        /\ reports[1].prs_generated_at # None
        /\ q.at - reports[1].prs_generated_at[1] > CacheMaxAge
        /\ q.data # None

(* C3: a tldr request that misses its own cache and finds prs or issues
   absent emits the DependencyMissing message as its only chunk, does not
   call the Aggregator and leaves the reports table as it was: no row is
   created, no payload and no stamp changes. *)
C3_DependencyMissing ==
    [][ LET q == req'[MainReq]
        IN  (/\ q.section = "tldr"
             /\ q.failed = {}
             /\ ~q.from_cache
             /\ \/ SectionData(reports, "prs") = None
                \/ SectionData(reports, "issues") = None
             /\ GetTldr)
            => /\ q.pc = "done"
               /\ q.out = <<ERR_DEPENDENCY>>
               /\ q.agg_calls = 0
               /\ reports' = reports ]_vars

\* the message was answered while prs was stored and issues was not
C3_Witness ==
    /\ req[MainReq].resp = "dependency_missing"
    /\ req[MainReq].out = <<ERR_DEPENDENCY>>
    /\ SectionData(reports, "prs") # None
    /\ SectionData(reports, "issues") = None

(* C4: in a tldr generation that runs to completion the reports table is
   written once, in the step that follows the last forwarded chunk, and the
   stored text is the concatenation of the forwarded chunks in their order. *)
C4_PersistOnceAfterLastChunk ==
    [][ LET p == req[MainReq]
            q == req'[MainReq]
        IN  /\ q.pc = "streaming" => (reports' = reports /\ q.writes = 0)
            /\ (p.pc = "streaming" /\ q.resp = "generated") =>
                   /\ p.stream = <<>>
                   /\ q.out = p.out
                   /\ q.writes = 1
                   /\ SectionData(reports', "tldr") = Some(Concat(q.out)) ]_vars

\* a generation of several chunks has completed and its text is stored
C4_Witness ==
    /\ req[MainReq].section = "tldr"
    /\ req[MainReq].resp = "generated"
    /\ Len(req[MainReq].out) >= 2
    /\ SectionData(reports, "tldr") = Some(Concat(req[MainReq].out))

(* C5: when the consumer of a tldr stream disconnects, no further chunk is
   forwarded and the tldr payload and tldr_generated_at stay what they were
   before the request; a request made afterwards starts from nothing. *)
C5_DisconnectLeavesTldr ==
    [][ LET p == req[MainReq]
            q == req'[MainReq]
        IN  /\ q.pc \in {"streaming", "cancelled"} =>
                   /\ SectionData(reports', "tldr") = SectionData(reports, "tldr")
                   /\ SectionStamp(reports', "tldr") = SectionStamp(reports, "tldr")
            /\ (p.pc \in {"streaming", "cancelled"} /\ q.pc = "cancelled") =>
                   q.out = p.out
            /\ (p.pc = "cancelled" /\ q.pc = "streaming" /\ ~q.from_cache) =>
                   (q.out = <<>> /\ q.accumulated_text = <<>>) ]_vars

\* the consumer left after some but not all chunks and no tldr is stored
C5_Witness ==
    /\ req[MainReq].pc = "cancelled"
    /\ ~req[MainReq].from_cache
    /\ Len(req[MainReq].out) >= 1
    /\ req[MainReq].stream # <<>>
    /\ SectionData(reports, "tldr") = None

(* C6: when the Activity Fetcher, the Summarizer or the Aggregator fails
   during a request, the reports table keeps every payload and every stamp it
   had: nothing partial and no error text is stored. *)
C6_FailurePersistsNothing ==
    [][ req'[MainReq].failed \cap {"fetcher", "summarizer", "aggregator"} # {}
        => reports' = reports ]_vars

(* C7: a request with force=true is never answered from the cache, and when
   it generates a result it overwrites the section's payload and sets the
   section's generated_at to the time of the request. *)
C7_ForceRegenerates ==
    [][ LET q == req'[MainReq]
        IN  (q.force /\ (GetItems \/ GetTldr \/ StreamEnd)) =>
                /\ q.resp # "cached"
                /\ ~q.from_cache
                /\ q.resp = "generated" =>
                       /\ q.writes = 1
                       /\ SectionData(reports', q.section) = q.data
                       /\ SectionStamp(reports', q.section) = Some(now') ]_vars

(* C8: once a prs, issues or people request has stored its result, a
   non-forced request for the same section made within 60 minutes answers the
   stored data with cached=true, calls neither the Activity Fetcher nor the
   Summarizer and does not write the reports table. *)
C8_SecondRequestCached ==
    [][ LET q == req'[MainReq]
            stored == SectionData(reports, q.section)
            stamp == SectionStamp(reports, q.section)
        IN  (/\ ~q.force
             /\ "get_repo" \notin q.failed
             /\ stored # None
             /\ stamp # None
             /\ now - stamp[1] <= CacheMaxAge
             /\ GetItems \/ GetPeople)
            => /\ q.resp = "cached"
               /\ q.data = stored
               /\ q.fetch_calls = 0
               /\ q.summarize_calls = 0
               /\ q.writes = 0
               /\ reports' = reports ]_vars

(* C9: a prs or issues request whose fetch returns no item stores the empty
   sequence with the current time as generated_at, and a stored empty
   sequence is served as a cache hit while it is at most 60 minutes old. *)
C9_EmptyResultCached ==
    [][ LET q == req'[MainReq]
            stored == SectionData(reports, q.section)
            stamp == SectionStamp(reports, q.section)
        IN  GetItems =>
                /\ (q.resp = "generated" /\ q.data = Some(<<>>)) =>
                       /\ SectionData(reports', q.section) = Some(<<>>)
                       /\ SectionStamp(reports', q.section) = Some(now')
                /\ (/\ ~q.force
                    /\ "get_repo" \notin q.failed
                    /\ stored = Some(<<>>)
                    /\ stamp # None
                    /\ now - stamp[1] <= CacheMaxAge)
                   => (q.resp = "cached" /\ q.data = stored /\ q.fetch_calls = 0) ]_vars

(* C10: on a people cache miss, when prs and issues are both stored (an empty
   sequence counts as stored) the people section is computed from them with
   no call of the Activity Fetcher or the Summarizer; when one of them is not
   stored both are fetched again. *)
C10_PeopleFromStored ==
    [][ LET q == req'[MainReq]
        IN  ("get_repo" \notin q.failed /\ q.resp # "cached" /\ GetPeople) =>
                IF /\ SectionData(reports, "prs") # None
                   /\ SectionData(reports, "issues") # None
                THEN q.deps_cached /\ q.fetch_calls = 0 /\ q.summarize_calls = 0
                ELSE ~q.deps_cached /\ q.fetch_calls >= 1 ]_vars

-----------------------------------------------------------------------------
(* Races of requests, the Report record and the tracking side effect *)

\* the session is serving a request
InFlight(s) == sessions[s].pc \notin {"closed", "done"}

\* this step ends the request of session s with a unique-constraint failure
FailsOnUnique(s) == InFlight(s) /\ sessions'[s].error = "IntegrityError"

\* the row get_cached_section reads for the pair the sessions ask for
AuthoritativeRow(reps) == reps[MostRecent(reps, DOMAIN reps)]

\* the sessions serve (or last served) a prs request and an issues request
PrsAndIssues(s, t) ==
    /\ sessions'[s].section \in {"prs", "issues"}
    /\ sessions'[t].section \in {"prs", "issues"}
    /\ sessions'[s].section # sessions'[t].section

(* C11: a prs request and an issues request for the same (repository,
   timeframe) that overlap both complete without a database error, also
   when no Report row exists yet for the pair, and once both have completed
   the authoritative Report row holds the prs payload and the issues
   payload. *)
C11_DisjointSectionsBothStored ==
    [][ \A s \in Sessions : \A t \in Others(s) :
          PrsAndIssues(s, t) =>
             /\ ~FailsOnUnique(s)
             /\ (/\ sessions'[s].pc = "done" /\ sessions'[s].resp # "error"
                 /\ sessions'[t].pc = "done" /\ sessions'[t].resp # "error")
                => /\ reports' # <<>>
                   /\ AuthoritativeRow(reports').prs # None
                   /\ AuthoritativeRow(reports').issues # None ]_vars

(* C12: a caller of get_or_create_report_record that found no row for the
   (repository, timeframe) pair obtains a Report row, also when another
   caller found no row either and creates one at the same time: no caller
   fails on the uniqueness constraint. *)
C12_DuplicateCreationTolerated ==
    [][ \A s \in Sessions :
          (sessions[s].pc = "flush_report" /\ sessions'[s].pc # "flush_report")
          => /\ sessions'[s].error # "IntegrityError"
             /\ sessions'[s].pc = "update_section"
             /\ ReportExists(sessions'[s].new_reports, sessions'[s].report_id) ]_vars

\* the row of the table with the id given
RowOf(reps, id) == reps[CHOOSE i \in 1..Len(reps) : reps[i].id = id]

\* the generated_at the session's pending write of its section carries
PendingStamp(q) ==
    IF q.dirty_reports # {} THEN Some((CHOOSE d \in q.dirty_reports : TRUE).at)
    ELSE q.new_reports[1][StampColumn(q.section)]

(* C13: two requests that miss the cache for the same (repository,
   timeframe, section) at the same time both run the generation pipeline
   and both write; the write applied last leaves the section with its
   payload and its generated_at, never a mixture of the two writes. *)
C13_LastWriteWins ==
    [][ \A s \in Sessions : \A t \in Others(s) :
          (/\ InFlight(s) /\ sessions[s].resp = "generated"
           /\ sessions[t].resp = "generated"
           /\ sessions[t].section = sessions[s].section)
          => /\ sessions'[s].resp = "generated"
             /\ (sessions'[s].pc = "done") =>
                   LET q == sessions[s]
                       row == RowOf(reports', q.report_id)
                   IN  /\ row[ColumnName(q.section)] = q.data
                       /\ row[StampColumn(q.section)] = PendingStamp(q) ]_vars

\* a row with no section payload and no generated_at
AllSectionsUnset(row) ==
    \A section \in Sections :
        row[ColumnName(section)] = None /\ row[StampColumn(section)] = None

(* C14: get_or_create_report_record returns a most recently created Report
   row of the (repository, timeframe) pair when the pair has a row, and
   creates a row only when its lookup finds none; the row it creates has no
   section payload and no generated_at and carries the timeframe_start and
   timeframe_end it was given. *)
C14_GetOrCreateReport ==
    [][ \A s \in Sessions :
          LET q == sessions[s]
              p == sessions'[s]
              idx == Matching(reports, q.repo_id, q.timeframe)
          IN  /\ (q.pc = "select_report" /\ p.pc # "select_report") =>
                    IF idx = {} THEN p.pc = "flush_report"
                    ELSE /\ p.pc = "update_section"
                         /\ p.new_reports = <<>>
                         /\ reports' = reports
                         /\ \E i \in idx :
                               /\ reports[i].id = p.report_id
                               /\ \A j \in idx :
                                     reports[j].created_at <= reports[i].created_at
              /\ (p.new_reports # <<>> /\ q.new_reports = <<>>) =>
                    /\ q.pc = "flush_report"
                    /\ Len(p.new_reports) = 1
                    /\ p.new_reports[1].id = p.report_id
                    /\ p.new_reports[1].repository_id = q.repo_id
                    /\ p.new_reports[1].timeframe = q.timeframe
                    /\ p.new_reports[1].timeframe_start = q.range[1].start
                    /\ p.new_reports[1].timeframe_end = q.range[1].end
                    /\ AllSectionsUnset(p.new_reports[1]) ]_vars

\* the pair has an older and a newer row; the lookup of one session has
\* returned the newer one and the other session found it too
C14_Witness ==
    /\ Len(reports) = 2
    /\ reports[1].created_at < reports[2].created_at
    /\ \A s \in Sessions :
          /\ sessions[s].pc = "update_section"
          /\ sessions[s].new_reports = <<>>
          /\ sessions[s].report_id = reports[2].id

(* C15: after any sequence or interleaving of section requests the reports
   table holds at most one row per (repository_id, timeframe). *)
C15_OneReportPerPair ==
    \A i, j \in 1..Len(reports) :
        (/\ reports[i].repository_id = reports[j].repository_id
         /\ reports[i].timeframe = reports[j].timeframe) => i = j

(* C16: update_section(report_id, s, data) sets the payload of section s to
   data and the generated_at of section s to the current time, and leaves
   the payload and the generated_at of the other three sections as they
   were. *)
C16_UpdateSectionFrame ==
    [][ (req'[MainReq].resp = "stored" /\ now' = now /\ Persist) =>
          LET q == req'[MainReq]
          IN  /\ SectionData(reports', q.section) = q.data
              /\ SectionStamp(reports', q.section) = Some(now)
              /\ \A other \in Sections \ {q.section} :
                    /\ SectionData(reports', other) = SectionData(reports, other)
                    /\ SectionStamp(reports', other) = SectionStamp(reports, other) ]_vars

(* C17: update_section called with a report id of no existing row fails
   with the ValueError that reports the missing Report and changes no
   Report row. *)
C17_ReportNotFound ==
    [][ LET q == req'[MainReq]
        IN  (q.resp \in {"ValueError", "updated"} /\ Update) =>
               IF q.at \in Ids(reports)
               THEN q.resp = "updated"
               ELSE q.resp = "ValueError" /\ q.writes = 0 /\ reports' = reports ]_vars

\* update_section has been called with the id of no row while a row exists
C17_Witness ==
    /\ req[MainReq].resp = "ValueError"
    /\ reports # <<>>
    /\ req[MainReq].at \notin Ids(reports)

\* after the step the repository has its row and the user's tracking link
TrackedAfter(user, full_name) ==
    \E i \in 1..Len(repositories') :
        /\ repositories'[i].full_name = full_name
        /\ <<user, repositories'[i].id>> \in user_repositories'

(* C18: once a prs, issues or tldr request has completed, as a cache hit, as
   a miss or as a forced refresh, the Repository row exists and the tracking
   link between the requesting user and the repository exists (every request
   of the model is made by the one user for the one repository). *)
C18_TrackedOnceCompleted ==
    [][ LET q == req'[MainReq]
        IN  (/\ q.pc = "done"
             /\ q.resp \in {"cached", "generated", "dependency_missing", "empty"}
             /\ q # req[MainReq])
            => \A user \in Users, full_name \in FullNames :
                  TrackedAfter(user, full_name) ]_vars

(* C19: in every interleaving of upserts of the same full_name, two
   first-time upserts at the same time included, no caller of
   get_or_create_repository fails, the repositories table holds one row
   for the full_name, and when a caller that wrote commits the row carries
   the metadata of that caller. *)
C19_RepositoryUpsertSafe ==
    [][ \A s \in Sessions :
          LET q == sessions[s]
              p == sessions'[s]
          IN  /\ (q.pc = "flush_repository") => p.error # "IntegrityError"
              /\ \A i, j \in 1..Len(repositories') :
                    repositories'[i].full_name = repositories'[j].full_name => i = j
              /\ (/\ q.pc = "commit" /\ p.pc = "done"
                  /\ (q.dirty_repositories # {} \/ q.new_repositories # <<>>))
                 => \E i \in 1..Len(repositories') :
                       /\ repositories'[i].full_name = q.full_name
                       /\ repositories'[i].meta = q.meta ]_vars

\* the authors of the items of the call
AuthorsOf(q) ==
    {q.prs_list[i].login : i \in 1..Len(q.prs_list)}
    \cup {q.issues_list[i].login : i \in 1..Len(q.issues_list)}

\* the number of PRs plus the number of issues of an author
ItemsOf(q, login) ==
    Cardinality({i \in 1..Len(q.prs_list) : q.prs_list[i].login = login})
    + Cardinality({i \in 1..Len(q.issues_list) : q.issues_list[i].login = login})

(* C20: generate_people_summaries returns records of distinct authors of the
   input PRs and issues, one per author when there are at most 5 authors and
   5 records otherwise, each with total_items equal to the number of the
   author's PRs plus the number of the author's issues, in non-increasing
   order of total_items; an author left out has no more items than any
   author kept. *)
C20_PeopleSummaries ==
    LET q == req[MainReq]
    IN  q.resp = "summarized" =>
          LET out == q.data[1]
              authors == AuthorsOf(q)
              kept == {out[k].username : k \in 1..Len(out)}
          IN  /\ Len(out) = IF Cardinality(authors) < 5 THEN Cardinality(authors) ELSE 5
              /\ kept \subseteq authors
              /\ Cardinality(kept) = Len(out)
              /\ \A k \in 1..Len(out) :
                    out[k].total_items = ItemsOf(q, out[k].username)
              /\ \A k \in 1..(Len(out) - 1) :
                    out[k].total_items >= out[k + 1].total_items
              /\ \A a \in authors \ kept : \A k \in 1..Len(out) :
                    ItemsOf(q, a) <= out[k].total_items

\* six authors with unequal numbers of items have been cut down to five
C20_Witness ==
    LET q == req[MainReq]
    IN  /\ q.resp = "summarized"
        /\ Cardinality(AuthorsOf(q)) = 6
        /\ Len(q.data[1]) = 5
        /\ q.data[1][1].total_items = 3
        /\ q.data[1][5].total_items = 1

-----------------------------------------------------------------------------
(* The tldr stream, resolve_timeframe and the item pipeline *)

\* the stored section exists and none of its items has a non-empty summary
StoredWithoutSummary(full_name, timeframe, section) ==
    LET stored == get_cached_section(reports, RepoId(full_name), timeframe,
                                     section, TRUE, now)
    IN  /\ ~IsNone(stored)
        /\ \A i \in 1..Len(stored[1]) : ~Truthy(stored[1][i].summary)

\* a tldr request starts, its repository lookup succeeds, and the stored prs
\* and issues have no summary to digest
TldrOverNothing ==
    /\ Startable(MainReq)
    /\ req'[MainReq] # req[MainReq]
    /\ req'[MainReq].section = "tldr"
    /\ req'[MainReq].failed = {}
    /\ \A full_name \in FullNames :
          /\ StoredWithoutSummary(full_name, req'[MainReq].timeframe, "prs")
          /\ StoredWithoutSummary(full_name, req'[MainReq].timeframe, "issues")

\* the request is over with no chunk, no Aggregator call and no write
NothingDone ==
    /\ req'[MainReq].pc = "done"
    /\ req'[MainReq].out = <<>>
    /\ req'[MainReq].stream = <<>>
    /\ req'[MainReq].agg_calls = 0
    /\ req'[MainReq].writes = 0
    /\ reports' = reports

(* C21 as stated: whenever the prs and issues sections both exist and hold no
   item with a non-empty summary, a tldr request produces no chunk, does not
   call the Aggregator and writes nothing to the Report. *)
C21_EmptyCorpusAnyRequest ==
    [][ TldrOverNothing => NothingDone ]_vars

(* C21 amended: whenever the prs and issues sections both exist and hold no
   item with a non-empty summary, a tldr request that is not answered from
   the stored tldr text (the tldr lookup missed, or force is set) produces no
   chunk, does not call the Aggregator and writes nothing to the Report. *)
C21_EmptyCorpusGeneration ==
    [][ (TldrOverNothing /\ ~req'[MainReq].from_cache) => NothingDone ]_vars

\* a tldr request has ended empty over a stored issue whose summary is empty
C21_Witness ==
    /\ req[MainReq].section = "tldr"
    /\ req[MainReq].resp = "empty"
    /\ req[MainReq].out = <<>>
    /\ Len(reports) = 1
    /\ reports[1].prs = Some(<<>>)
    /\ ~IsNone(reports[1].issues)
    /\ Len(reports[1].issues[1]) = 1

\* the UTC day of a minute of the clock
DayOf(t) == t \div MinutesPerDay

\* a call of resolve_timeframe follows a call with the same timeframe
CalledAgain ==
    /\ req[MainReq].resp = "resolved"
    /\ req'[MainReq].resp = "resolved"
    /\ req'[MainReq].timeframe = req[MainReq].timeframe
    /\ now' = now

\* a datetime one day later
DayLater(dt) == [minute |-> dt.minute + 1440, us |-> dt.us]

(* C22: for every timeframe, a call of resolve_timeframe that follows a call
   made on the same UTC day, at whatever instants of the day the two read the
   clock, returns the same (start, end); a call that follows a call made on
   the day before returns both bounds one day later. *)
C22_SameDaySamePair ==
    [][ CalledAgain =>
          LET before == req[MainReq]
              after == req'[MainReq]
          IN  /\ DayOf(after.at) = DayOf(before.at) => after.range = before.range
              /\ DayOf(after.at) = DayOf(before.at) + 1 =>
                    /\ after.range[1].start = DayLater(before.range[1].start)
                    /\ after.range[1].end = DayLater(before.range[1].end) ]_vars

\* a call in the last microsecond of day 1 has answered for last_month
C22_Witness ==
    /\ req[MainReq].resp = "resolved"
    /\ req[MainReq].timeframe = "last_month"
    /\ req[MainReq].data = Some([minute |-> 2879, us |-> 59999999])
    /\ req[MainReq].range[1].start = [minute |-> 1440 - 30 * 1440, us |-> 0]

\* a <= b on datetimes
NotAfter(a, b) == a.minute < b.minute \/ (a.minute = b.minute /\ a.us <= b.us)

\* the days a timeframe reaches back
DaysBack(timeframe) ==
    IF timeframe = "last_day" THEN 1
    ELSE IF timeframe = "last_week" THEN 7
    ELSE IF timeframe = "last_month" THEN 30
    ELSE 365

\* 00:00 UTC of the day of the call, in minutes
Midnight(q) == DayOf(q.at) * 1440

\* instants on both sides of the two bounds of the call's interval
Probes(q) ==
    {[minute |-> Midnight(q) - k * 1440 + m, us |-> us] :
        k \in {0, DaysBack(q.timeframe)}, m \in {-1, 0, 1}, us \in {0, 1, 59999999}}

(* C23: the pair resolve_timeframe returns stands for the half-open interval
   from 00:00 UTC of the current day minus 1, 7, 30 or 365 days (last_day,
   last_week, last_month, last_year) to 00:00 UTC of the current day: an
   instant lies between start and end if and only if it is at or after that
   first instant and before 00:00 UTC of the current day. *)
C23_HalfOpenInterval ==
    LET q == req[MainReq]
    IN  q.resp = "resolved" =>
          \A x \in Probes(q) :
             (NotAfter(q.range[1].start, x) /\ NotAfter(x, q.range[1].end))
             <=> (/\ x.minute >= Midnight(q) - DaysBack(q.timeframe) * 1440
                  /\ x.minute < Midnight(q))

\* a call at noon of day 2 has answered for last_week
C23_Witness ==
    /\ req[MainReq].resp = "resolved"
    /\ req[MainReq].timeframe = "last_week"
    /\ req[MainReq].at = 2 * 1440 + 720
    /\ req[MainReq].range[1].end.minute = 2 * 1440 - 1

(* C24: with the clock at any instant of UTC day D, resolve_timeframe returns
   start = D 00:00 minus N days (N = 1, 7, 30, 365 for last_day, last_week,
   last_month, last_year) and end = D 00:00 minus one microsecond, the last
   instant of the day before. *)
C24_Boundaries ==
    LET q == req[MainReq]
    IN  q.resp = "resolved" =>
          /\ q.range[1].start =
                [minute |-> Midnight(q) - DaysBack(q.timeframe) * 1440, us |-> 0]
          /\ q.range[1].end = [minute |-> Midnight(q) - 1, us |-> 59999999]

\* a call one microsecond into the last minute of day 1 has answered for
\* last_year
C24_Witness ==
    /\ req[MainReq].resp = "resolved"
    /\ req[MainReq].timeframe = "last_year"
    /\ req[MainReq].data = Some([minute |-> 2879, us |-> 1])
    /\ req[MainReq].range[1].end = [minute |-> 1439, us |-> 59999999]

(* C25: resolve_timeframe called with a token other than last_day,
   last_week, last_month and last_year fails with ValueError and returns no
   interval. *)
C25_InvalidTimeframe ==
    LET q == req[MainReq]
    IN  (q.pc = "done" /\ q.timeframe \notin {"last_day", "last_week", "last_month", "last_year"})
          => (q.resp = "ValueError" /\ q.range = None)

\* the call with the token decade has failed
C25_Witness ==
    /\ req[MainReq].pc = "done"
    /\ req[MainReq].timeframe = "decade"
    /\ req[MainReq].resp = "ValueError"

(* C26: on a tldr cache hit the chunks of the response are consecutive
   slices of the stored text: every chunk has at most chunk_size (50)
   characters and every chunk but the last exactly chunk_size, the chunks
   sent in order make up the stored text when the stream has ended, the
   Aggregator is not called and the Report row is not written. *)
C26_ReplayInSlices ==
    [][ LET q == req'[MainReq]
        IN  q.from_cache =>
              /\ reports' = reports
              /\ q.agg_calls = 0
              /\ q.writes = 0
              /\ \A k \in 1..Len(q.out) :
                    /\ Len(q.out[k]) \in 1..50
                    /\ (k < Len(q.out) \/ q.stream # <<>>) => Len(q.out[k]) = 50
              /\ q.resp = "cached" =>
                    Concat(q.out) = reports[1].tldr_text[1] ]_vars

\* a stored text of 101 characters has been replayed in three chunks
C26_Witness ==
    /\ req[MainReq].from_cache
    /\ req[MainReq].resp = "cached"
    /\ Len(req[MainReq].out) = 3
    /\ Len(req[MainReq].out[3]) = 1
    /\ Len(reports[1].tldr_text[1]) = 101

(* C27: a tldr request in which the repository lookup, a database statement
   or the Aggregator failed, before the first chunk or after some chunks,
   ends as a finished stream whose last chunk is the error line; the request
   is never left with an exception instead of a stream. *)
C27_FailureInsideStream ==
    [][ LET q == req'[MainReq]
        IN  (q.section = "tldr" /\ q.failed # {} /\ q # req[MainReq]) =>
              /\ q.pc \in {"streaming", "done", "cancelled"}
              /\ q.pc = "done" =>
                    /\ Len(q.out) >= 1
                    /\ q.out[Len(q.out)] \in {ERR_ROUTE, ERR_SUMMARY} ]_vars

\* the Aggregator's stream raised after its first chunk
C27_Witness ==
    /\ req[MainReq].section = "tldr"
    /\ req[MainReq].resp = "error"
    /\ req[MainReq].failed = {"aggregator"}
    /\ req[MainReq].out = << <<"a">>, ERR_ROUTE >>

\* the request is stopped at an external call
AtExternalCall == req[MainReq].pc \in Awaits

(* C28: every section request terminates: a request that is waiting for the
   Activity Fetcher, the Summarizer or the Aggregator is over at some later
   time, also when the collaborator never answers. *)
C28_RequestTerminates == AtExternalCall ~> (req[MainReq].pc = "done")

(* C29: summarize_items returns a list as long as its input and in the same
   order, each element the input item with nothing but its summary
   replaced; an item whose summarization failed has the empty summary, the
   others have their summaries, and the request goes on and stores the
   list. *)
C29_SummarizeKeepsItems ==
    [][ (req[MainReq].pc = "summarize" /\ req'[MainReq].pc = "done") =>
          LET items == req[MainReq].data[1]
              failing == req[MainReq].failing
              out == req'[MainReq].data[1]
          IN  /\ req'[MainReq].resp = "generated"
              /\ Len(out) = Len(items)
              /\ \A i \in 1..Len(items) :
                    /\ out[i] = [items[i] EXCEPT !.summary = out[i].summary]
                    /\ items[i].number \in failing => out[i].summary = Some(<<>>)
                    /\ items[i].number \notin failing =>
                          out[i].summary = Some(<<"summary of", items[i].title>>) ]_vars

\* of two summarization calls the second failed and the first did not
C29_Witness ==
    /\ req[MainReq].pc = "done"
    /\ req[MainReq].resp = "generated"
    /\ req[MainReq].section = "prs"
    /\ req[MainReq].failing # {}
    /\ Len(req[MainReq].data[1]) = 2
    /\ req[MainReq].data[1][1].summary # Some(<<>>)
    /\ req[MainReq].data[1][2].summary = Some(<<>>)

\* comments plus reactions
Engagement(item) == item.comments + item.reactions

(* C30: of the fetched list of a miss, score_sort_items returns at most
   MAX_ITEMS_PER_SECTION (10) items, all of the list when it has no more
   than 10; no returned item has less engagement (comments plus reactions)
   than an item left out; the returned items are in non-increasing order of
   their final score; and the items summarized for the section are the
   returned items in that order. *)
C30_TopKByEngagement ==
    LET q == req[MainReq]
    IN  (q.resp = "generated" /\ q.summarize_calls = 1 /\ q.section = "prs") =>
          LET raw == q.prs_list
              ranked == q.issues_list
              kept == {ranked[i].number : i \in 1..Len(ranked)}
          IN  /\ Len(ranked) = IF Len(raw) < 10 THEN Len(raw) ELSE 10
              /\ Cardinality(kept) = Len(ranked)
              /\ \A i \in 1..Len(ranked) : \E j \in 1..Len(raw) : ranked[i] = raw[j]
              /\ \A i \in 1..Len(ranked), j \in 1..Len(raw) :
                    raw[j].number \notin kept =>
                        Engagement(ranked[i]) >= Engagement(raw[j])
              /\ \A i \in 1..(Len(ranked) - 1) :
                    compute_score(ranked[i]) >= compute_score(ranked[i + 1])
              /\ Len(q.data[1]) = Len(ranked)
              /\ \A i \in 1..Len(ranked) : q.data[1][i].number = ranked[i].number

\* twelve items were fetched, ten were kept and two left out
C30_Witness ==
    /\ req[MainReq].resp = "generated"
    /\ Len(req[MainReq].prs_list) = 12
    /\ Len(req[MainReq].issues_list) = 10
    /\ Len(req[MainReq].data[1]) = 10

-----------------------------------------------------------------------------
(* The Report row over time, groups, the search and the tracking links *)

\* the row at position i is still there, with the same id
RowKept(i) == i \in DOMAIN reports' /\ reports'[i].id = reports[i].id

\* every section payload of the row at position i that was set is still set
StillSet(i) ==
    \A section \in Sections :
        ~IsNone(reports[i][ColumnName(section)])
            => ~IsNone(reports'[i][ColumnName(section)])

(* C31: a section request never deletes a Report row and never resets a
   populated section to unset: over every step of every prs, issues, people
   and tldr request each row remains and each payload that was set is set
   afterwards (possibly to a newer value). *)
C31_SectionsStaySet ==
    [][\A i \in DOMAIN reports : RowKept(i) /\ StillSet(i)]_vars

\* all four sections are stored and the last request was a forced prs request
\* that stored its result: it overwrote a payload that was set
C31_Witness ==
    /\ reports # <<>>
    /\ \A section \in Sections : ~IsNone(reports[1][ColumnName(section)])
    /\ req[MainReq].section = "prs"
    /\ req[MainReq].force
    /\ req[MainReq].resp = "generated"

\* the rows of the groups table
GroupRows(table) == {table.rows[i] : i \in 1..Len(table.rows)}

\* the caller of the group request a step serves
Caller == req'[MainReq].user

(* C32: over every group request a system group remains in the table with its
   name, description and repository list as they were (update and delete are
   answered 403), and a user-owned group remains as it was over every request
   made by a user other than its creator. *)
C32_GroupsGuarded ==
    [][\A g \in GroupRows(groups) :
          (g.is_system \/ g.created_by_id # Some(Caller))
              => g \in GroupRows(groups')]_vars

\* a user's request to delete a group another user owns was answered 404; the
\* group's name gave the slug of the system group, so its slug has a suffix
C32_Witness ==
    /\ req[MainReq].section = "delete_group"
    /\ req[MainReq].resp = "404"
    /\ \E g \in GroupRows(groups) :
          /\ g.slug = req[MainReq].data[1]
          /\ ~g.is_system
          /\ g.created_by_id # Some(req[MainReq].user)
          /\ g.slug = <<"a", "-", 1>>

\* a call of search_github_items has returned a list
Searched == req[MainReq].section = "search" /\ req[MainReq].resp = "ok"

\* the items found whose fetch succeeded
FetchedOf(q) ==
    {q.data[1].items[i] : i \in {j \in 1..Len(q.data[1].items) :
                                    q.data[1].items[j].number \notin q.data[1].unfetched}}

(* C33: search_github_items never returns an item authored by a known bot
   account (login compared case-insensitively): when the search request was
   made, the returned list holds every fetched item of a person, no item of a
   bot, and no item twice. *)
C33_BotsFiltered ==
    (Searched /\ req[MainReq].fetch_calls = 1) =>
        LET q == req[MainReq]
        IN  /\ \A i \in 1..Len(q.out) : ~is_bot(q.out[i].login)
            /\ \A item \in FetchedOf(q) :
                  ~is_bot(item.login) => \E i \in 1..Len(q.out) : q.out[i] = item
            /\ \A i, j \in 1..Len(q.out) : q.out[i].id = q.out[j].id => i = j

(* C34: when the remaining rate limit is below the buffer, search_github_items
   returns the empty list, issues no search request and does not raise. *)
C34_RateLimitSkip ==
    (req[MainReq].section = "search"
     /\ req[MainReq].data[1].remaining < rate_limit_buffer) =>
        /\ req[MainReq].resp = "ok"
        /\ req[MainReq].out = <<>>
        /\ req[MainReq].fetch_calls = 0

\* one request short of the buffer, and the search would have found items
C34_Witness ==
    /\ req[MainReq].section = "search"
    /\ req[MainReq].data[1].remaining = rate_limit_buffer - 1
    /\ Len(req[MainReq].data[1].items) = MaxFound
    /\ req[MainReq].out = <<>>
    /\ req[MainReq].fetch_calls = 0

\* the request of session s was answered with the section's items
Answered(s, section) ==
    /\ sessions[s].pc = "done"
    /\ sessions[s].section = section
    /\ sessions[s].resp \in {"cached", "generated"}

\* the rows the dependency reads of a tldr request can return
DependencyRows(full_name, timeframe) ==
    LET idx == Matching(reports, RepoId(full_name), timeframe)
    IN  {reports[i] : i \in Latest(reports, idx)}

(* C35: once a prs request and an issues request for a (repository,
   timeframe) have both been answered successfully, the dependency reads of a
   tldr request for the pair find both sections, in every interleaving with
   other requests: the row the reads select holds a prs and an issues payload. *)
C35_DependenciesPresent ==
    \A s, t \in Sessions :
        (Answered(s, "prs") /\ Answered(t, "issues")) =>
            \A full_name \in FullNames, timeframe \in Watched :
                /\ DependencyRows(full_name, timeframe) # {}
                /\ \A row \in DependencyRows(full_name, timeframe) :
                      ~IsNone(row.prs) /\ ~IsNone(row.issues)

(* C36: in every reachable state, for every Report row and every section, a
   set payload implies a set generated_at timestamp of that section. *)
C36_PayloadHasTimestamp ==
    \A i \in 1..Len(reports) : \A section \in Sections :
        ~IsNone(reports[i][ColumnName(section)])
            => ~IsNone(reports[i][StampColumn(section)])

\* session s commits a prs or issues payload it generated
StoresGenerated(s) ==
    /\ sessions[s].pc = "commit"
    /\ sessions'[s].pc = "done"
    /\ sessions[s].resp = "generated"
    /\ sessions[s].section \in {"prs", "issues"}

(* C37: each populated prs or issues payload of a Report row was generated
   from exactly the date interval recorded in the row's timeframe_start and
   timeframe_end, also when the section is regenerated on a later UTC day than
   the row was created: every request that stores a payload fetched it over
   the interval its row records. *)
C37_PayloadOfRecordedInterval ==
    [][\A s \in Sessions :
          StoresGenerated(s) =>
              LET row == RowOf(reports', sessions[s].report_id)
              IN  /\ row.timeframe_start = sessions[s].range[1].start
                  /\ row.timeframe_end = sessions[s].range[1].end]_vars

\* the row's prs and issues columns and the instants of their last writes
DependencyColumns(row) ==
    <<row.prs, row.prs_generated_at, row.issues, row.issues_generated_at,
      row.written_at["prs"], row.written_at["issues"]>>

\* the step belongs to a people or a tldr request
DerivedStep == req' # req /\ req'[MainReq].section \in {"people", "tldr"}

\* C38: a step of a people or a tldr request, forced or not, leaves the prs and
\* issues payloads and their generated_at timestamps of every Report row as
\* they were, and a row the request creates has neither: the request writes at
\* most its own section, also when the people request regenerated the PRs and
\* the issues because a dependency was absent.
C38_DependenciesUntouched ==
    [][DerivedStep =>
          \A i \in DOMAIN reports' :
              DependencyColumns(reports'[i]) =
                  IF i \in DOMAIN reports THEN DependencyColumns(reports[i])
                  ELSE <<None, None, None, None, None, None>>]_vars

\* a people request regenerated the PRs and the issues, a dependency being
\* absent, and stored its people section in the row that still lacks it
C38_Witness ==
    /\ req[MainReq].section = "people"
    /\ req[MainReq].resp = "generated"
    /\ ~req[MainReq].deps_cached
    /\ req[MainReq].fetch_calls = 2
    /\ \E i \in DOMAIN reports :
          /\ reports[i].people # None
          /\ reports[i].written_at["people"] = Some(now)
          /\ reports[i].prs = None \/ reports[i].issues = None

\* the tracking links of the pair the session's request is about
LinksOf(tracks, s) ==
    {link \in tracks : link = <<sessions[s].user, sessions[s].repo_id>>}

\* C39: after any interleaving of track, untrack and section requests the
\* INSERT of a tracking link is never rejected and a track call that found the
\* link adds none: two concurrent first-time track calls for the same (user,
\* repository) both succeed, and the pair has at most one link.
C39_TrackBothSucceed ==
    [][\A s \in Sessions :
          /\ sessions[s].pc = "flush_tracking" =>
                sessions'[s].error # "IntegrityError"
          /\ (sessions[s].pc = "get_tracking"
              /\ LinksOf(user_repositories, s) # {}) =>
                sessions'[s].new_tracking = {}
          /\ Cardinality(LinksOf(user_repositories', s)) <= 1]_vars

====
